---- MODULE Spec2Model ----
(***************************************************************************)
(* Model of the Plex / Apple Music metadata cleaner                        *)
(* (plex_music_cleaner.py, apple_music_xml_client.py).                     *)
(*                                                                         *)
(* Text values (titles, artist names, album titles, file paths) are        *)
(* sequences of one-character strings, so that basename, lower() and the   *)
(* substring test are computed the way the code computes them.  Python's   *)
(* None is the one-element sequence None, which no text value equals.      *)
(***************************************************************************)
EXTENDS Integers, Sequences, FiniteSets, TLC

(***************************************************************************)
(* Bounds of the model.                                                    *)
(***************************************************************************)
\* longest list of tracks the managed library returns for one run
MaxTracks == 2
\* largest number of tracks in the source library
MaxSrc == 2
\* longest Change Log built through the CleanLogger interface alone
MaxLog == 2
\* most failures (of the log store, of the managed server) in one behaviour
MaxFaults == 1

\* the longest source playlist
MaxPaths == 2

\* the most playlists the managed server holds at the start
MaxPlaylists == 2

\* the longest location after the "file://" prefix
MaxLocLen == 5

\* the most playlists in the XML export
MaxRawPlaylists == 1

(***************************************************************************)
(* Values.                                                                 *)
(***************************************************************************)
None == <<"None">>

Keys == {"k1", "k2"}

Fields == {"title", "artist", "album"}

\* titles "X" and "x", artists "Y" and "V", albums "Z" and "W"
Titles == {<<"X">>, <<"x">>}
Artists == {<<"Y">>, <<"V">>}
Albums == {<<"Z">>, <<"W">>}

\* "/m/a" is where the managed library keeps the file of k1; the file of k2
\* is "/n/a" (the file name of k1 in another directory) or "/n/b"
PathMA == <<"/", "m", "/", "a">>
PathNA == <<"/", "n", "/", "a">>
PathNB == <<"/", "n", "/", "b">>
PathSA == <<"/", "s", "/", "a">>
PathSUpperA == <<"/", "s", "/", "A">>

SrcPaths == {PathMA, PathSA, PathSUpperA}

\* Python truth value of a text value or None
Truthy(v) == v # None /\ v # <<>>

(***************************************************************************)
(* os.path.basename (posix): what follows the last "/".                    *)
(***************************************************************************)
LastSep(p) ==
    LET seps == {n \in 1..Len(p) : p[n] = "/"}
    IN  IF seps = {} THEN 0 ELSE CHOOSE n \in seps : \A m \in seps : m <= n

basename(p) == SubSeq(p, LastSep(p) + 1, Len(p))

(***************************************************************************)
(* str.lower() and the substring test `a in b`.                            *)
(***************************************************************************)
LowerChar(c) ==
    CASE c = "X" -> "x"
      [] c = "Y" -> "y"
      [] c = "V" -> "v"
      [] c = "Z" -> "z"
      [] c = "W" -> "w"
      [] c = "A" -> "a"
      [] c = "R" -> "r"
      [] OTHER -> c

lower(s) == [n \in 1..Len(s) |-> LowerChar(s[n])]

IsSubstring(a, b) ==
    \E n \in 0..(Len(b) - Len(a)) : SubSeq(b, n + 1, n + Len(a)) = a

(***************************************************************************)
(* The source catalog: AppleMusicXMLClient.track_map, a dict in insertion  *)
(* order, modelled as a sequence of entries with distinct paths.           *)
(***************************************************************************)
\* what the source library says of a track: ("X", "Y", "Z") or ("x", "V", "W")
SrcMetas ==
    {[title |-> <<"X">>, artist |-> <<"Y">>, album |-> <<"Z">>],
     [title |-> <<"x">>, artist |-> <<"V">>, album |-> <<"W">>]}

SrcEntries(paths) ==
    {[path |-> p, title |-> m.title, artist |-> m.artist, album |-> m.album] :
         p \in paths, m \in SrcMetas}

DistinctPaths(c) ==
    \A m, n \in 1..Len(c) : m # n => c[m].path # c[n].path

SeqsUpTo(S, n) == UNION {[1..m -> S] : m \in 0..n}

CatalogsOver(paths) ==
    {c \in SeqsUpTo(SrcEntries(paths), MaxSrc) : DistinctPaths(c)}

\* source libraries of the resolution runs: any paths
Catalogs == CatalogsOver(SrcPaths)

\* source libraries of the repeated runs: the file of k1 and k2 under "/s"
SmallCatalogs == CatalogsOver({PathSA})

\* AppleMusicXMLClient.get_tracks_by_artist
\* a filter that compares the artist names as they are written
get_tracks_by_artist_exact_case(track_map, artist_name) ==
    SelectSeq(track_map, LAMBDA e : IsSubstring(artist_name, e.artist))

get_tracks_by_artist(track_map, artist_name) ==
    SelectSeq(track_map,
              LAMBDA e : IsSubstring(lower(artist_name), lower(e.artist)))

VARIABLES
    server,          \* managed library: ratingKey -> the track's metadata
    apple_lib,       \* source library: the catalog the source adapter holds
    log,             \* rows of the table `cleaned`, in insertion order
    pc,              \* position of the workflow
    mode,            \* "all" or "artist": which clean is running
    plex_tracks,     \* track objects the run enumerated
    apple_tracks,    \* the source catalog the run uses
    cleaned_tracks,  \* ratingKeys read from the log when the run started
    idx,             \* position in plex_tracks of the track being processed
    stats,           \* the run's statistics
    apple_track,     \* position in apple_tracks of the match (0: none)
    updated,         \* the local flag `updated`
    attempts,        \* history: the run's record_change calls, or the
                     \* last direct call
    writes,          \* history: the run's update_track_metadata calls
    outcomes,        \* history: what the run did with each track so far
    log0,            \* history: the log as it was when the run started
    rerun,           \* history: the run repeats the previous run's inputs
    faults,          \* history: failures of the store and the server so far
    answer,          \* the last is_track_cleaned answer
    playlists,       \* managed server: its playlists, in the server's order
    apple_playlists, \* source library: the playlists the adapter holds
    sync,            \* sync_playlist: its locals and what it has called
    norm,            \* the last location decoded, and what each adapter made
                     \* of it
    library,         \* the XML export and what _load_library made of it
    report,          \* the last get_stats answer
    inter            \* interactive_clean_all: its locals

vars == <<server, apple_lib, log, pc, mode, plex_tracks, apple_tracks,
          cleaned_tracks, idx, stats, apple_track, updated, attempts,
          writes, outcomes, log0, rerun, faults, answer, playlists,
          apple_playlists, sync, norm, library, report, inter>>

loadVars == <<library, report, inter>>

syncVars == <<playlists, apple_playlists, sync, norm, library, report, inter>>

runLocal == <<mode, plex_tracks, apple_tracks, cleaned_tracks, idx, stats,
              apple_track, updated, attempts, writes, outcomes, log0, rerun>>

(***************************************************************************)
(* CleanLogger: the table `cleaned`.  A row is (plex_rating_key, field,    *)
(* old_value, new_value); the row id is its position in the sequence.  The *)
(* timestamp column is written and never read, and is left out.            *)
(***************************************************************************)
LogValues == {<<"X">>, <<"x">>}

\* CleanLogger.record_change; ok = FALSE: the INSERT or the commit raises
\* a record_change whose row is stored although the store raised
record_change_always(l, rating_key, field, old_value, new_value, ok) ==
    Append(l, [plex_rating_key |-> rating_key, field |-> field,
               old_value |-> old_value, new_value |-> new_value])

\* a record_change that leaves out a row the log already holds
record_change_dedup(l, rating_key, field, old_value, new_value, ok) ==
    LET row == [plex_rating_key |-> rating_key, field |-> field,
                old_value |-> old_value, new_value |-> new_value]
    IN  IF ok /\ \A n \in 1..Len(l) : l[n] # row THEN Append(l, row) ELSE l

record_change(l, rating_key, field, old_value, new_value, ok) ==
    IF ok
    THEN Append(l, [plex_rating_key |-> rating_key, field |-> field,
                    old_value |-> old_value, new_value |-> new_value])
    ELSE l

\* CleanLogger.is_track_cleaned: SELECT COUNT(*) ... WHERE key AND field
RowCount(l, rating_key, field) ==
    Cardinality({n \in 1..Len(l) : /\ l[n].plex_rating_key = rating_key
                                   /\ l[n].field = field})

\* an is_track_cleaned that counts the rows of the ratingKey, any field
is_track_cleaned_any_field(l, rating_key, field) ==
    \E n \in 1..Len(l) : l[n].plex_rating_key = rating_key

is_track_cleaned(l, rating_key, field) == RowCount(l, rating_key, field) > 0

\* a get_cleaned_tracks that looks at the rows of the title field only
get_cleaned_tracks_title_only(l) ==
    {l[n].plex_rating_key : n \in {m \in 1..Len(l) : l[m].field = "title"}}

\* CleanLogger.get_cleaned_tracks: SELECT DISTINCT plex_rating_key
get_cleaned_tracks(l) == {l[n].plex_rating_key : n \in 1..Len(l)}

\* a get_stats that counts the rows where it should count the ratingKeys
get_stats_count_rows(l) ==
    [total_changes |-> Len(l),
     tracks_changed |-> Len(l),
     field_counts |->
         [f \in {l[n].field : n \in 1..Len(l)} |->
              Cardinality({n \in 1..Len(l) : l[n].field = f})]]

\* CleanLogger.get_stats: COUNT(*), COUNT(DISTINCT plex_rating_key) and
\* the COUNT(*) of every group of GROUP BY field
get_stats(l) ==
    [total_changes |-> Len(l),
     tracks_changed |-> Cardinality({l[n].plex_rating_key : n \in 1..Len(l)}),
     field_counts |->
         [f \in {l[n].field : n \in 1..Len(l)} |->
              Cardinality({n \in 1..Len(l) : l[n].field = f})]]

(***************************************************************************)
(* PlexClient: track objects and update_track_metadata.                    *)
(***************************************************************************)
\* the object the server hands out for ratingKey k: a copy of its metadata
TrackObject(k) ==
    [ratingKey |-> k,
     title |-> server[k].title,
     originalTitle |-> server[k].originalTitle,
     grandparentTitle |-> server[k].grandparentTitle,
     parentTitle |-> server[k].parentTitle,
     file |-> server[k].file]

\* update_fields of update_track_metadata; None marks a field left out
UpdateFields(track, title, artist, album) ==
    [title |-> IF title # None /\ track.title # title THEN title ELSE None,
     originalTitle |->
         IF artist # None /\ track.originalTitle # artist THEN artist ELSE None,
     parentTitle |->
         IF album # None /\ track.parentTitle # album THEN album ELSE None]

NoFields == [title |-> None, originalTitle |-> None, parentTitle |-> None]

\* track.edit(**update_fields) on the server's record
Edited(rec, f) ==
    [rec EXCEPT !.title = IF f.title # None THEN f.title ELSE @,
                !.originalTitle =
                    IF f.originalTitle # None THEN f.originalTitle ELSE @,
                !.parentTitle =
                    IF f.parentTitle # None THEN f.parentTitle ELSE @]

(***************************************************************************)
(* Identity resolution of the clean workflows: exact path, then basename.  *)
(* The result is the position of the source record in the catalog, 0 when  *)
(* there is none.                                                          *)
(***************************************************************************)
ExactMatch(file_path, catalog) ==
    LET hits == {n \in 1..Len(catalog) : catalog[n].path = file_path}
    IN  IF hits = {} THEN 0 ELSE CHOOSE n \in hits : TRUE

\* a resolution without the tier of the file names
BasenameMatch_none(file_path, catalog) == 0

\* a tier of the file names that folds case
BasenameMatch_nocase(file_path, catalog) ==
    LET hits == {n \in 1..Len(catalog) :
                     lower(basename(catalog[n].path)) =
                         lower(basename(file_path))}
    IN  IF hits = {} THEN 0 ELSE CHOOSE n \in hits : \A m \in hits : n <= m

BasenameMatch(file_path, catalog) ==
    LET hits == {n \in 1..Len(catalog) :
                     basename(catalog[n].path) = basename(file_path)}
    IN  IF hits = {} THEN 0 ELSE CHOOSE n \in hits : \A m \in hits : n <= m

\* a resolution that looks at the file names before the paths
ResolveTrack_basename_first(file_path, catalog) ==
    IF BasenameMatch(file_path, catalog) # 0
    THEN BasenameMatch(file_path, catalog)
    ELSE ExactMatch(file_path, catalog)

ResolveTrack(file_path, catalog) ==
    IF ExactMatch(file_path, catalog) # 0
    THEN ExactMatch(file_path, catalog)
    ELSE BasenameMatch(file_path, catalog)

\* a managed artist value that prefers the album artist
track_artist_album_first(track) ==
    IF Truthy(track.grandparentTitle)
    THEN track.grandparentTitle
    ELSE track.originalTitle

\* the managed artist value the clean workflows compare
track_artist(track) ==
    IF Truthy(track.originalTitle)
    THEN track.originalTitle
    ELSE track.grandparentTitle

(***************************************************************************)
(* The path normalizers: AppleMusicXMLClient._decode_file_url and          *)
(* AppleMusicClient._decode_apple_file_path.  A location is a sequence of  *)
(* characters; a character that urllib.parse.unquote decodes from an       *)
(* escape and that is neither " " nor "%" is written "#" and its two hex   *)
(* digits.  nt says that os.name is 'nt'.                                  *)
(***************************************************************************)
FilePrefix == <<"f", "i", "l", "e", ":", "/", "/">>

StartsWith(s, prefix) ==
    /\ Len(s) >= Len(prefix)
    /\ SubSeq(s, 1, Len(prefix)) = prefix

HexDigits == {"0", "1", "2", "3", "4", "5", "6", "7", "8", "9",
              "a", "b", "c", "d", "e", "f", "A", "B", "C", "D", "E", "F"}

\* the character of an escape %h1h2
Unescaped(h1, h2) ==
    CASE h1 = "2" /\ h2 = "0" -> " "
      [] h1 = "2" /\ h2 = "5" -> "%"
      [] OTHER -> "#" \o h1 \o h2

\* an unquote that leaves the text as it is
unquote_nothing(s) == s

\* urllib.parse.unquote: every %XX with two hex digits becomes its
\* character, any other "%" stays
RECURSIVE unquote(_)
unquote(s) ==
    IF s = <<>> THEN <<>>
    ELSE IF /\ s[1] = "%"
            /\ Len(s) >= 3
            /\ s[2] \in HexDigits
            /\ s[3] \in HexDigits
         THEN <<Unescaped(s[2], s[3])>> \o unquote(SubSeq(s, 4, Len(s)))
         ELSE <<s[1]>> \o unquote(Tail(s))

VolumesPrefix == <<"/", "Volumes", "/">>

\* `if os.name == 'nt' and path.startswith('/')`: the conversion of a
\* macOS path, path.split('/', 3) included
ConvertPath(path, nt) ==
    IF ~(nt /\ StartsWith(path, <<"/">>)) THEN path
    ELSE IF StartsWith(path, VolumesPrefix)
         THEN LET rest == SubSeq(path, 4, Len(path))
                  seps == {n \in 1..Len(rest) : rest[n] = "/"}
                  first == CHOOSE n \in seps : \A m \in seps : n <= m
              IN  IF seps = {} THEN path
                  ELSE SubSeq(rest, 1, first - 1) \o <<":", "/">>
                           \o SubSeq(rest, first + 1, Len(rest))
         ELSE Tail(path)

\* a Location that is not a str (a <data> or <integer> value of the
\* plist): its startswith raises
NotStr == <<"data">>

\* the try block has raised
Raised == <<"raised">>

\* the try block of both normalizers
DecodeTry(location, nt) ==
    IF location = NotStr THEN Raised
    ELSE IF StartsWith(location, FilePrefix)
         THEN ConvertPath(unquote(SubSeq(location, 8, Len(location))), nt)
         ELSE None

\* a normalizer without its except clause
decode_file_url_propagates(file_url, nt) == DecodeTry(file_url, nt)

\* AppleMusicXMLClient._decode_file_url
decode_file_url(file_url, nt) ==
    IF DecodeTry(file_url, nt) = Raised THEN None ELSE DecodeTry(file_url, nt)

\* a normalizer of the database adapter that leaves the path as macOS
\* wrote it
decode_apple_file_path_posix(encoded_path, nt) ==
    IF encoded_path = <<>> THEN None
    ELSE IF DecodeTry(encoded_path, FALSE) = Raised THEN None
         ELSE DecodeTry(encoded_path, FALSE)

\* AppleMusicClient._decode_apple_file_path
decode_apple_file_path(encoded_path, nt) ==
    IF encoded_path = <<>> THEN None
    ELSE IF DecodeTry(encoded_path, nt) = Raised THEN None
         ELSE DecodeTry(encoded_path, nt)

\* the characters of the locations: a letter, the separator, a blank, the
\* escape sign, three digits, and the word "Volumes" as one character
LocChars == {"m", "/", " ", "%", "0", "2", "5", "Volumes"}

\* the Location values of the library: with the prefix, and without it
Locations ==
    {FilePrefix \o t : t \in SeqsUpTo(LocChars, MaxLocLen)}
        \cup SeqsUpTo(LocChars, 1) \cup {NotStr}

NoNorm == [location |-> <<>>, nt |-> FALSE, xml |-> None, db |-> None,
           decoded |-> FALSE]

\* the location is decoded, by either adapter
DecodeLocation ==
    /\ pc = "idle"
    /\ sync.pc = "idle"
    /\ ~norm.decoded
    /\ norm' = [norm EXCEPT
                    !.xml = decode_file_url(norm.location, norm.nt),
                    !.db = decode_apple_file_path(norm.location, norm.nt),
                    !.decoded = TRUE]
    /\ UNCHANGED <<playlists, apple_playlists, sync, faults>>
    /\ UNCHANGED <<server, apple_lib, log, pc, answer>>
    /\ UNCHANGED runLocal
    /\ UNCHANGED loadVars

(***************************************************************************)
(* AppleMusicXMLClient._load_library: the Tracks and the Playlists of the  *)
(* export become track_map, id_map and playlists.  A dict is a sequence of *)
(* entries in insertion order.                                             *)
(***************************************************************************)
\* the track has no 'Location' key
NoLocation == <<"absent">>

TrackIds == {"1", "2"}

\* Location values of the export: not a str, without the scheme, the scheme
\* alone, and two files
LoadLocations ==
    {NotStr, <<"m">>, FilePrefix, FilePrefix \o <<"/", "m">>,
     FilePrefix \o <<"/", "%", "2", "0">>}

\* Name, Artist and Album of the two tracks
RawMeta(id) ==
    IF id = "1"
    THEN [title |-> <<"X">>, artist |-> <<"Y">>, album |-> <<"Z">>]
    ELSE [title |-> <<"x">>, artist |-> <<"V">>, album |-> <<"W">>]

RawTracks ==
    {t \in SeqsUpTo([id : TrackIds, Location : LoadLocations \cup {NoLocation}],
                    MaxSrc) :
         \A m, n \in 1..Len(t) : m # n => t[m].id # t[n].id}

\* system says whether the playlist has 'Master' or a 'Distinguished Kind'
RawPlaylists ==
    SeqsUpTo([Name : {<<"R">>, <<>>},
              system : {"no", "Master", "Distinguished Kind"},
              Items : SeqsUpTo(TrackIds, 2)], MaxRawPlaylists)

\* track_map[file_path] = metadata
PutTrack(track_map, entry) ==
    IF \E n \in 1..Len(track_map) : track_map[n].path = entry.path
    THEN [n \in 1..Len(track_map) |->
              IF track_map[n].path = entry.path THEN entry ELSE track_map[n]]
    ELSE Append(track_map, entry)

\* AppleMusicXMLClient._process_tracks over the first n tracks; raised says
\* that _decode_file_url let an exception out
RECURSIVE process_tracks(_, _, _)
process_tracks(tracks, nt, n) ==
    IF n = 0
    THEN [track_map |-> <<>>, id_map |-> <<>>, decoded |-> <<>>,
          raised |-> FALSE]
    ELSE LET before == process_tracks(tracks, nt, n - 1)
             t == tracks[n]
             file_path == IF t.Location = NoLocation THEN None
                          ELSE decode_file_url(t.Location, nt)
         IN  IF before.raised
             THEN before
             ELSE IF file_path = Raised
             THEN [before EXCEPT !.decoded = Append(@, file_path),
                                 !.raised = TRUE]
             ELSE IF ~Truthy(file_path)
             THEN [before EXCEPT !.decoded = Append(@, file_path)]
             ELSE [track_map |->
                       PutTrack(before.track_map,
                                [path |-> file_path,
                                 title |-> RawMeta(t.id).title,
                                 artist |-> RawMeta(t.id).artist,
                                 album |-> RawMeta(t.id).album]),
                   id_map |-> Append(before.id_map,
                                     [id |-> t.id, path |-> file_path]),
                   decoded |-> Append(before.decoded, file_path),
                   raised |-> FALSE]

InIdMap(id_map, id) == \E n \in 1..Len(id_map) : id_map[n].id = id

IdPath(id_map, id) ==
    id_map[CHOOSE n \in 1..Len(id_map) : id_map[n].id = id].path

\* self.playlists[playlist_name] = tracks
PutPlaylist(pls, entry) ==
    IF \E n \in 1..Len(pls) : pls[n].name = entry.name
    THEN [n \in 1..Len(pls) |->
              IF pls[n].name = entry.name THEN entry ELSE pls[n]]
    ELSE Append(pls, entry)

\* AppleMusicXMLClient._process_playlists over the first n playlists
RECURSIVE process_playlists(_, _, _)
process_playlists(playlists_list, id_map, n) ==
    IF n = 0 THEN <<>>
    ELSE LET before == process_playlists(playlists_list, id_map, n - 1)
             playlist == playlists_list[n]
             items == SelectSeq(playlist.Items,
                                LAMBDA id : InIdMap(id_map, id))
             tracks == [m \in 1..Len(items) |-> IdPath(id_map, items[m])]
         IN  IF playlist.system # "no" \/ playlist.Name = <<>>
                \/ tracks = <<>>
             THEN before
             ELSE PutPlaylist(before, [name |-> playlist.Name,
                                       tracks |-> tracks])

NoLibrary == [tracks |-> <<>>, playlists |-> <<>>, nt |-> FALSE,
              id_map |-> <<>>, decoded |-> <<>>, loaded |-> "no"]

\* AppleMusicXMLClient.__init__: _load_library
load_library ==
    /\ pc = "idle"
    /\ sync.pc = "idle"
    /\ library.loaded = "no"
    /\ LET t == process_tracks(library.tracks, library.nt,
                                Len(library.tracks))
       IN  IF t.raised
           THEN /\ library' = [library EXCEPT !.decoded = t.decoded,
                                              !.loaded = "raised"]
                /\ UNCHANGED <<apple_lib, apple_playlists>>
           ELSE /\ apple_lib' = t.track_map
                /\ apple_playlists' =
                       process_playlists(library.playlists, t.id_map,
                                         Len(library.playlists))
                /\ library' = [library EXCEPT !.id_map = t.id_map,
                                              !.decoded = t.decoded,
                                              !.loaded = "yes"]
    /\ UNCHANGED <<server, log, pc, answer, faults>>
    /\ UNCHANGED <<playlists, sync, norm, report, inter>>
    /\ UNCHANGED runLocal

NoReport == [asked |-> FALSE, rows |-> 0, total_changes |-> 0,
             tracks_changed |-> 0, field_counts |-> [f \in {} |-> 0]]

\* the statistics of interactive_clean_all
InterStats(artists, tracks) ==
    [total_artists |-> artists, processed_artists |-> 0,
     skipped_artists |-> 0, total_tracks |-> tracks, updated_tracks |-> 0,
     title_updates |-> 0, artist_updates |-> 0, album_updates |-> 0]

\* interactive_clean_all is not running; choices, reprompted, runs, exited,
\* server0 and log0 are history
NoInter ==
    [pc |-> "idle", plex_tracks |-> <<>>,
     artists_tracks |-> [a \in {} |-> <<>>], sorted_artists |-> <<>>,
     n |-> 0, stats |-> InterStats(0, 0), choices |-> <<>>,
     reprompted |-> FALSE, runs |-> <<>>, exited |-> FALSE,
     server0 |-> [k \in Keys |-> None], log0 |-> <<>>]

IdleLoad ==
    /\ library = NoLibrary
    /\ report = NoReport
    /\ inter = NoInter

(***************************************************************************)
(* Playlists: AppleMusicXMLClient.get_playlist_tracks, and the PlexClient  *)
(* calls find_track_by_filename and create_playlist.                       *)
(***************************************************************************)
\* os.path.splitext(b)[0] of a file name b: what is before the last ".",
\* unless that "." follows only leading dots
LeadingDots(b) ==
    LET stops == {n \in 1..Len(b) : b[n] # "."}
    IN  IF stops = {} THEN Len(b)
        ELSE (CHOOSE n \in stops : \A m \in stops : n <= m) - 1

LastDot(b) ==
    LET dots == {n \in 1..Len(b) : b[n] = "."}
    IN  IF dots = {} THEN 0 ELSE CHOOSE n \in dots : \A m \in dots : m <= n

name_without_ext(b) ==
    IF LastDot(b) > LeadingDots(b) THEN SubSeq(b, 1, LastDot(b) - 1) ELSE b

\* the first position of a sequence that satisfies a test, 0 when none does
FirstOf(hits) ==
    IF hits = {} THEN 0 ELSE CHOOSE n \in hits : \A m \in hits : n <= m

\* AppleMusicXMLClient.get_playlist_tracks: exact name, then equal in lower
\* case, then the query as a substring of the lower-case name
get_playlist_tracks(pls, playlist_name) ==
    LET exact == {n \in 1..Len(pls) : pls[n].name = playlist_name}
        nocase == {n \in 1..Len(pls) :
                       lower(pls[n].name) = lower(playlist_name)}
        partial == {n \in 1..Len(pls) :
                        IsSubstring(lower(playlist_name), lower(pls[n].name))}
    IN  IF exact # {} THEN pls[FirstOf(exact)].tracks
        ELSE IF nocase # {} THEN pls[FirstOf(nocase)].tracks
        ELSE IF partial # {} THEN pls[FirstOf(partial)].tracks
        ELSE <<>>

NoTrack == "none"

\* a lookup that takes the first track the search returned
find_track_by_filename_first(filename, results, raised) ==
    IF raised \/ results = <<>> THEN NoTrack ELSE results[1]

\* PlexClient.find_track_by_filename, given what music_section.search
\* returned (ratingKeys in result order) or that the search raised
find_track_by_filename(filename, results, raised) ==
    LET base_filename == basename(filename)
        exact == {n \in 1..Len(results) :
                      /\ Truthy(server[results[n]].file)
                      /\ basename(server[results[n]].file) = base_filename}
    IN  IF raised THEN NoTrack
        ELSE IF exact # {} THEN results[FirstOf(exact)]
        ELSE IF results # <<>> THEN results[1]
        ELSE NoTrack

\* the playlist create_playlist deletes: the first whose title matches
ExistingPlaylist(pls, name) ==
    FirstOf({n \in 1..Len(pls) : lower(pls[n].title) = lower(name)})

Without(pls, n) ==
    [m \in 1..(Len(pls) - 1) |-> IF m < n THEN pls[m] ELSE pls[m + 1]]

\* PlexClient.create_playlist: the server's playlists after the call and the
\* value returned; outcome says which server call raised, if any
create_playlist(pls, name, tracks, outcome) ==
    LET n == ExistingPlaylist(pls, name)
        deleted == IF n = 0 THEN pls ELSE Without(pls, n)
    IN  CASE outcome = "ok" ->
                 [playlists |-> Append(deleted,
                                       [title |-> name, items |-> tracks]),
                  result |-> TRUE]
          [] outcome = "playlists_raises" ->
                 [playlists |-> pls, result |-> FALSE]
          [] outcome = "delete_raises" ->
                 [playlists |-> pls, result |-> FALSE]
          [] outcome = "create_raises" ->
                 [playlists |-> deleted, result |-> FALSE]

\* no playlist sync has run
NoSync ==
    [pc |-> "idle", playlist_name |-> <<>>, apple_track_paths |-> <<>>,
     idx |-> 0, plex_tracks |-> <<>>, missing_tracks |-> <<>>,
     stats |-> [total_tracks |-> 0, matched_tracks |-> 0,
                missing_tracks |-> 0],
     lookup |-> [filename |-> <<>>, title |-> <<>>, results |-> <<>>,
                 raised |-> FALSE],
     answers |-> <<>>, before |-> <<>>, success |-> "none"]

IdleSync ==
    /\ playlists = <<>>
    /\ apple_playlists = <<>>
    /\ sync = NoSync
    /\ norm = NoNorm
    /\ IdleLoad

(***************************************************************************)
(* Initial states: an empty Change Log, no workflow running, a managed     *)
(* library of two tracks and any source library within the bounds.         *)
(***************************************************************************)
ManagedK1 ==
    [title : Titles, originalTitle : {None, <<"Y">>},
     grandparentTitle : Artists, parentTitle : Albums, file : {PathMA}]

\* k2 is a track the source library does not hold, or one with no media part
ManagedK2 ==
    [title : {<<"x">>}, originalTitle : {None},
     grandparentTitle : {<<"V">>}, parentTitle : {<<"W">>},
     file : {PathNB, None}]

ZeroStats(n) ==
    [total_tracks |-> n, matched_tracks |-> 0, updated_tracks |-> 0,
     title_updates |-> 0, artist_updates |-> 0, album_updates |-> 0,
     skipped_tracks |-> 0]

NoAnswer == [rating_key |-> "", field |-> "", result |-> FALSE]

IdleLocals ==
    /\ mode = "none"
    /\ plex_tracks = <<>>
    /\ apple_tracks = <<>>
    /\ cleaned_tracks = {}
    /\ idx = 0
    /\ stats = ZeroStats(0)
    /\ apple_track = 0
    /\ updated = FALSE
    /\ attempts = <<>>
    /\ writes = <<>>
    /\ outcomes = <<>>
    /\ log0 = <<>>
    /\ rerun = FALSE

Init ==
    /\ server \in {f \in [Keys -> ManagedK1 \cup ManagedK2] :
                       f["k1"] \in ManagedK1 /\ f["k2"] \in ManagedK2}
    /\ apple_lib \in SmallCatalogs
    /\ log = <<>>
    /\ pc = "idle"
    /\ IdleLocals
    /\ faults = 0
    /\ answer = NoAnswer
    /\ IdleSync

(***************************************************************************)
(* clean_all_tracks and clean_artist_tracks.  The two functions have the   *)
(* same body after the enumeration; `mode` records which one runs.         *)
(***************************************************************************)
Enumerations == SeqsUpTo(Keys, MaxTracks)

ArtistQueries == {<<"y">>, <<"V">>}

\* the head of both functions, up to the loop
StartRun(m, catalog, enum, again) ==
    /\ mode' = m
    /\ plex_tracks' = [n \in 1..Len(enum) |-> TrackObject(enum[n])]
    /\ apple_tracks' = catalog
    /\ stats' = ZeroStats(Len(enum))
    /\ cleaned_tracks' = get_cleaned_tracks(log)
    /\ idx' = 1
    /\ apple_track' = 0
    /\ updated' = FALSE
    /\ attempts' = <<>>
    /\ writes' = <<>>
    /\ outcomes' = <<>>
    /\ log0' = log
    /\ rerun' = again
    /\ pc' = "loop"
    /\ answer' = NoAnswer
    /\ UNCHANGED <<server, apple_lib, log, faults>>
    /\ UNCHANGED syncVars

clean_all_tracks ==
    /\ pc = "idle"
    /\ sync.pc = "idle"
    /\ \E enum \in Enumerations : StartRun("all", apple_lib, enum, FALSE)

clean_artist_tracks ==
    /\ pc = "idle"
    /\ sync.pc = "idle"
    /\ \E enum \in Enumerations, artist_name \in ArtistQueries :
           StartRun("artist", get_tracks_by_artist(apple_lib, artist_name),
                    enum, FALSE)

\* clean_all_tracks called again with the libraries as the last run left them
RepeatCleanAll ==
    /\ pc = "done"
    /\ mode = "all"
    /\ ~rerun
    /\ StartRun("all", apple_lib,
                [n \in 1..Len(plex_tracks) |-> plex_tracks[n].ratingKey], TRUE)

Track == plex_tracks[idx]

InLoop == pc = "loop" /\ idx <= Len(plex_tracks)

\* a loop without the test of cleaned_tracks
AlreadyCleaned_never(track, cleaned) == FALSE

\* `track.ratingKey in cleaned_tracks`
AlreadyCleaned(track, cleaned) == track.ratingKey \in cleaned

Outcome(kind, source) == [kind |-> kind, source |-> source, track |-> Track]

\* a loop that stays on the track it has just handled
NextTrack_again ==
    /\ idx' = idx
    /\ pc' = "loop"

NextTrack ==
    /\ idx' = idx + 1
    /\ pc' = "loop"

\* a skip that counts the track as matched as well
SkipCleaned_counted_matched ==
    /\ InLoop
    /\ AlreadyCleaned(Track, cleaned_tracks)
    /\ stats' = [stats EXCEPT !.skipped_tracks = @ + 1,
                            !.matched_tracks = @ + 1]
    /\ outcomes' = Append(outcomes, Outcome("skipped", 0))
    /\ NextTrack
    /\ UNCHANGED <<server, apple_lib, log, mode, plex_tracks, apple_tracks,
                   cleaned_tracks, apple_track, updated, attempts, writes,
                   log0, rerun, faults, answer>>
    /\ UNCHANGED syncVars

\* `if track.ratingKey in cleaned_tracks`: count and continue
SkipCleaned ==
    /\ InLoop
    /\ AlreadyCleaned(Track, cleaned_tracks)
    /\ stats' = [stats EXCEPT !.skipped_tracks = @ + 1]
    /\ outcomes' = Append(outcomes, Outcome("skipped", 0))
    /\ NextTrack
    /\ UNCHANGED <<server, apple_lib, log, mode, plex_tracks, apple_tracks,
                   cleaned_tracks, apple_track, updated, attempts, writes,
                   log0, rerun, faults, answer>>
    /\ UNCHANGED syncVars

\* `if not file_path: continue`
NoFilePath ==
    /\ InLoop
    /\ ~AlreadyCleaned(Track, cleaned_tracks)
    /\ ~Truthy(Track.file)
    /\ outcomes' = Append(outcomes, Outcome("no_file", 0))
    /\ NextTrack
    /\ UNCHANGED <<server, apple_lib, log, mode, plex_tracks, apple_tracks,
                   cleaned_tracks, stats, apple_track, updated, attempts,
                   writes, log0, rerun, faults, answer>>
    /\ UNCHANGED syncVars

\* `if not apple_track: continue`
NoMatch ==
    /\ InLoop
    /\ ~AlreadyCleaned(Track, cleaned_tracks)
    /\ Truthy(Track.file)
    /\ ResolveTrack(Track.file, apple_tracks) = 0
    /\ apple_track' = 0
    /\ outcomes' = Append(outcomes, Outcome("no_match", 0))
    /\ NextTrack
    /\ UNCHANGED <<server, apple_lib, log, mode, plex_tracks, apple_tracks,
                   cleaned_tracks, stats, updated, attempts, writes, log0,
                   rerun, faults, answer>>
    /\ UNCHANGED syncVars

\* a source record is found by path or by basename
MatchTrack ==
    /\ InLoop
    /\ ~AlreadyCleaned(Track, cleaned_tracks)
    /\ Truthy(Track.file)
    /\ ResolveTrack(Track.file, apple_tracks) # 0
    /\ apple_track' = ResolveTrack(Track.file, apple_tracks)
    /\ stats' = [stats EXCEPT !.matched_tracks = @ + 1]
    /\ outcomes' = Append(outcomes, Outcome("matched", apple_track'))
    /\ updated' = FALSE
    /\ pc' = "title"
    /\ UNCHANGED <<server, apple_lib, log, mode, plex_tracks, apple_tracks,
                   cleaned_tracks, idx, attempts, writes, log0, rerun, faults,
                   answer>>
    /\ UNCHANGED syncVars

Source == apple_tracks[apple_track]

\* what a call of the log store, or of the server, may do now
StoreOutcomes == IF faults < MaxFaults THEN BOOLEAN ELSE {TRUE}

EditOutcomes ==
    IF faults < MaxFaults
    THEN {"ok", "edit_raises", "reload_raises"}
    ELSE {"ok"}

\* a comparison that folds case before it compares
CompareField_casefold(field, old_value, new_value, counter, next_pc) ==
    /\ IF lower(old_value) # lower(new_value)
       THEN /\ \E ok \in StoreOutcomes :
                   /\ faults' = IF ok THEN faults ELSE faults + 1
                   /\ log' = record_change(log, Track.ratingKey, field,
                                           old_value, new_value, ok)
                   /\ attempts' =
                          Append(attempts,
                                 [plex_rating_key |-> Track.ratingKey,
                                  field |-> field, old_value |-> old_value,
                                  new_value |-> new_value, ok |-> ok,
                                  at |-> idx])
            /\ stats' = [stats EXCEPT ![counter] = @ + 1]
            /\ updated' = TRUE
       ELSE UNCHANGED <<log, attempts, stats, updated, faults>>
    /\ pc' = next_pc
    /\ UNCHANGED <<server, apple_lib, mode, plex_tracks, apple_tracks,
                   cleaned_tracks, idx, apple_track, writes, outcomes, log0,
                   rerun, answer>>
    /\ UNCHANGED syncVars

\* one `if <managed value> != apple_track[...]` block of the comparison
CompareField(field, old_value, new_value, counter, next_pc) ==
    /\ IF old_value # new_value
       THEN /\ \E ok \in StoreOutcomes :
                   /\ faults' = IF ok THEN faults ELSE faults + 1
                   /\ log' = record_change(log, Track.ratingKey, field,
                                           old_value, new_value, ok)
                   /\ attempts' =
                          Append(attempts,
                                 [plex_rating_key |-> Track.ratingKey,
                                  field |-> field, old_value |-> old_value,
                                  new_value |-> new_value, ok |-> ok,
                                  at |-> idx])
            /\ stats' = [stats EXCEPT ![counter] = @ + 1]
            /\ updated' = TRUE
       ELSE UNCHANGED <<log, attempts, stats, updated, faults>>
    /\ pc' = next_pc
    /\ UNCHANGED <<server, apple_lib, mode, plex_tracks, apple_tracks,
                   cleaned_tracks, idx, apple_track, writes, outcomes, log0,
                   rerun, answer>>
    /\ UNCHANGED syncVars

CheckTitle ==
    /\ pc = "title"
    /\ CompareField("title", Track.title, Source.title, "title_updates",
                    "artist")

CheckArtist ==
    /\ pc = "artist"
    /\ CompareField("artist", track_artist(Track), Source.artist,
                    "artist_updates", "album")

CheckAlbum ==
    /\ pc = "album"
    /\ CompareField("album", Track.parentTitle, Source.album,
                    "album_updates", "update")

\* PlexClient.update_track_metadata on the track object at position idx:
\* the server's record and the object after the call, and the value returned
update_track_metadata(track, title, artist, album, outcome) ==
    LET f == UpdateFields(track, title, artist, album)
        k == track.ratingKey
        edited == outcome # "edit_raises"
    IN  IF f = NoFields
        THEN /\ UNCHANGED <<server, plex_tracks>>
             /\ writes' = Append(writes, [plex_rating_key |-> k, fields |-> f,
                                          edited |-> FALSE, result |-> FALSE,
                                          at |-> idx, logged |-> Len(attempts)])
        ELSE /\ server' = IF edited
                          THEN [server EXCEPT ![k] = Edited(@, f)]
                          ELSE server
             /\ plex_tracks' =
                    IF outcome = "ok"
                    THEN [plex_tracks EXCEPT
                              ![idx] = [ratingKey |-> k,
                                        title |-> server'[k].title,
                                        originalTitle |-> server'[k].originalTitle,
                                        grandparentTitle |->
                                            server'[k].grandparentTitle,
                                        parentTitle |-> server'[k].parentTitle,
                                        file |-> server'[k].file]]
                    ELSE plex_tracks
             /\ writes' = Append(writes, [plex_rating_key |-> k, fields |-> f,
                                          edited |-> edited,
                                          result |-> (outcome = "ok"),
                                          at |-> idx, logged |-> Len(attempts)])

\* a loop that calls update_track_metadata for every matched track
UpdateTrack_always ==
    /\ pc = "update"
    /\ \E outcome \in EditOutcomes :
           /\ update_track_metadata(Track, Source.title, Source.artist,
                                    Source.album, outcome)
           /\ faults' = IF outcome = "ok" THEN faults ELSE faults + 1
    /\ stats' = [stats EXCEPT !.updated_tracks = @ + 1]
    /\ NextTrack
    /\ UNCHANGED <<apple_lib, log, mode, apple_tracks, cleaned_tracks,
                   apple_track, updated, attempts, outcomes, log0, rerun,
                   answer>>
    /\ UNCHANGED syncVars

\* `if updated:` call update_track_metadata and count the track
UpdateTrack ==
    /\ pc = "update"
    /\ IF updated
       THEN /\ \E outcome \in EditOutcomes :
                   /\ update_track_metadata(Track, Source.title,
                                            Source.artist, Source.album,
                                            outcome)
                   /\ faults' = IF outcome = "ok" THEN faults ELSE faults + 1
            /\ stats' = [stats EXCEPT !.updated_tracks = @ + 1]
       ELSE UNCHANGED <<server, plex_tracks, writes, stats, faults>>
    /\ NextTrack
    /\ UNCHANGED <<apple_lib, log, mode, apple_tracks, cleaned_tracks,
                   apple_track, updated, attempts, outcomes, log0, rerun,
                   answer>>
    /\ UNCHANGED syncVars

\* the loop is over: the function returns stats
EndRun ==
    /\ pc = "loop"
    /\ idx > Len(plex_tracks)
    /\ pc' = "done"
    /\ UNCHANGED <<server, apple_lib, log, mode, plex_tracks, apple_tracks,
                   cleaned_tracks, idx, stats, apple_track, updated, attempts,
                   writes, outcomes, log0, rerun, faults, answer>>
    /\ UNCHANGED syncVars

\* the caller has the statistics; the run's objects are dropped
Return ==
    /\ pc = "done"
    /\ pc' = "idle"
    /\ mode' = "none"
    /\ plex_tracks' = <<>>
    /\ apple_tracks' = <<>>
    /\ cleaned_tracks' = {}
    /\ idx' = 0
    /\ stats' = ZeroStats(0)
    /\ apple_track' = 0
    /\ updated' = FALSE
    /\ attempts' = <<>>
    /\ writes' = <<>>
    /\ outcomes' = <<>>
    /\ log0' = <<>>
    /\ rerun' = FALSE
    /\ UNCHANGED <<server, apple_lib, log, faults, answer>>
    /\ UNCHANGED syncVars

\* between runs the source library is edited by its owner
EditSource ==
    /\ pc = "idle"
    /\ apple_lib' \in SmallCatalogs \ {apple_lib}
    /\ UNCHANGED <<server, log, pc, faults, answer>>
    /\ UNCHANGED runLocal
    /\ UNCHANGED syncVars

Next ==
    \/ clean_all_tracks
    \/ clean_artist_tracks
    \/ RepeatCleanAll
    \/ SkipCleaned
    \/ NoFilePath
    \/ NoMatch
    \/ MatchTrack
    \/ CheckTitle
    \/ CheckArtist
    \/ CheckAlbum
    \/ UpdateTrack
    \/ EndRun
    \/ Return
    \/ EditSource

Spec == Init /\ [][Next]_vars

(***************************************************************************)
(* The same workflows over any source library within the bounds, and two   *)
(* managed tracks with the same file name: the runs that exercise identity *)
(* resolution.  The source library is not edited between the runs, and    *)
(* neither the log store nor the server fails.                             *)
(***************************************************************************)
ResolveK1 ==
    [title : Titles, originalTitle : {None}, grandparentTitle : {<<"Y">>},
     parentTitle : {<<"Z">>}, file : {PathMA}]

ResolveK2 ==
    [title : {<<"x">>}, originalTitle : {None},
     grandparentTitle : {<<"V">>}, parentTitle : {<<"W">>},
     file : {PathNA, None}]

InitResolve ==
    /\ server \in {f \in [Keys -> ResolveK1 \cup ResolveK2] :
                       f["k1"] \in ResolveK1 /\ f["k2"] \in ResolveK2}
    /\ apple_lib \in Catalogs
    /\ log = <<>>
    /\ pc = "idle"
    /\ IdleLocals
    /\ faults = MaxFaults
    /\ answer = NoAnswer
    /\ IdleSync

NextResolve ==
    \/ clean_all_tracks
    \/ clean_artist_tracks
    \/ SkipCleaned
    \/ NoFilePath
    \/ NoMatch
    \/ MatchTrack
    \/ CheckTitle
    \/ CheckArtist
    \/ CheckAlbum
    \/ UpdateTrack
    \/ EndRun
    \/ Return

SpecResolve == InitResolve /\ [][NextResolve]_vars

(***************************************************************************)
(* The same workflows over a source library that has tracks without an     *)
(* 'Artist' key: their artist is the empty string.  Neither the log store  *)
(* nor the server fails.                                                   *)
(***************************************************************************)
\* track_data.get('Artist', '') of a track without the key
NoArtistMeta == [title |-> <<"X">>, artist |-> <<>>, album |-> <<"Z">>]

NoArtistCatalogs ==
    {c \in SeqsUpTo({[path |-> PathSA, title |-> m.title,
                      artist |-> m.artist, album |-> m.album] :
                         m \in SrcMetas \cup {NoArtistMeta}}, MaxSrc) :
         DistinctPaths(c)}

InitNoArtist ==
    /\ server \in {f \in [Keys -> ManagedK1 \cup ManagedK2] :
                       f["k1"] \in ManagedK1 /\ f["k2"] \in ManagedK2}
    /\ apple_lib \in NoArtistCatalogs
    /\ log = <<>>
    /\ pc = "idle"
    /\ IdleLocals
    /\ faults = MaxFaults
    /\ answer = NoAnswer
    /\ IdleSync

SpecNoArtist == InitNoArtist /\ [][NextResolve]_vars

(***************************************************************************)
(* The CleanLogger interface called directly, by any caller and with any   *)
(* arguments, while no workflow runs.                                      *)
(***************************************************************************)
\* any caller's record_change(rating_key, field, old_value, new_value)
RecordChange ==
    /\ pc = "idle"
    /\ Len(log) < MaxLog
    /\ \E k \in Keys, f \in Fields, new_value \in LogValues,
          ok \in StoreOutcomes :
           /\ log' = record_change(log, k, f, <<"x">>, new_value, ok)
           /\ attempts' = <<[plex_rating_key |-> k, field |-> f,
                              old_value |-> <<"x">>, new_value |-> new_value,
                              ok |-> ok, at |-> 0]>>
           /\ faults' = IF ok THEN faults ELSE faults + 1
    /\ answer' = NoAnswer
    /\ UNCHANGED <<server, apple_lib, pc, mode, plex_tracks, apple_tracks,
                   cleaned_tracks, idx, stats, apple_track, updated, writes,
                   outcomes, log0, rerun>>
    /\ UNCHANGED syncVars

\* any caller's is_track_cleaned(rating_key, field)
IsTrackCleaned ==
    /\ pc = "idle"
    /\ \E k \in Keys, f \in Fields :
           answer' = [rating_key |-> k, field |-> f,
                      result |-> is_track_cleaned(log, k, f)]
    /\ UNCHANGED <<server, apple_lib, log, pc, faults>>
    /\ UNCHANGED runLocal
    /\ UNCHANGED syncVars

\* any caller's get_stats(); rows remembers how long the log was
GetStats ==
    /\ pc = "idle"
    /\ report' = [asked |-> TRUE, rows |-> Len(log),
                  total_changes |-> get_stats(log).total_changes,
                  tracks_changed |-> get_stats(log).tracks_changed,
                  field_counts |-> get_stats(log).field_counts]
    /\ UNCHANGED <<server, apple_lib, log, pc, faults, answer>>
    /\ UNCHANGED <<playlists, apple_playlists, sync, norm, library, inter>>
    /\ UNCHANGED runLocal

InitLog ==
    /\ server =
           [k \in Keys |->
                IF k = "k1"
                THEN [title |-> <<"x">>, originalTitle |-> None,
                      grandparentTitle |-> <<"Y">>, parentTitle |-> <<"Z">>,
                      file |-> PathMA]
                ELSE [title |-> <<"x">>, originalTitle |-> None,
                      grandparentTitle |-> <<"V">>, parentTitle |-> <<"W">>,
                      file |-> None]]
    /\ apple_lib = <<[path |-> PathSA, title |-> <<"X">>,
                      artist |-> <<"Y">>, album |-> <<"Z">>]>>
    /\ log = <<>>
    /\ pc = "idle"
    /\ IdleLocals
    /\ faults = 0
    /\ answer = NoAnswer
    /\ IdleSync

NextLog ==
    \/ RecordChange
    \/ IsTrackCleaned
    \/ GetStats

SpecLog == InitLog /\ [][NextLog]_vars

(***************************************************************************)
(* sync_playlist.  The managed tracks are two files named "a.b" and "a.c"; *)
(* the source playlists list "/s/a.b", which k1 holds under another        *)
(* directory, and "/s/a.d", which no managed track holds.  What            *)
(* music_section.search returns for a title is the server's choice.        *)
(***************************************************************************)
PathMAB == <<"/", "m", "/", "a", ".", "b">>
PathNAC == <<"/", "n", "/", "a", ".", "c">>
PathSAB == <<"/", "s", "/", "a", ".", "b">>
PathSAD == <<"/", "s", "/", "a", ".", "d">>

SyncPaths == {PathSAB, PathSAD}

\* names of source playlists, and the names sync_playlist is called with
PlaylistR == [name : {<<"R">>},
              tracks : SeqsUpTo(SyncPaths, MaxPaths) \ {<<>>}]
PlaylistRo == [name : {<<"r", "o">>}, tracks : {<<PathSAD>>}]

SourcePlaylists ==
    {<<>>} \cup {<<p>> : p \in PlaylistR \cup PlaylistRo}
           \cup {<<p, q>> : p \in PlaylistR, q \in PlaylistRo}
           \cup {<<q, p>> : p \in PlaylistR, q \in PlaylistRo}

SyncNames == {<<"r">>, <<"R">>}

\* playlists the server may hold before the program runs
ServerPlaylists == [title : {<<"R">>, <<"r">>}, items : {<<"k2">>}]

\* what music_section.search may return: tracks of the library, each once
SearchResults == {r \in SeqsUpTo(Keys, 2) : \A i, j \in 1..Len(r) :
                                                i # j => r[i] # r[j]}

cleanVars == <<server, apple_lib, log, pc, answer>>

InitSync ==
    /\ server \in
           {[k1 |-> [title |-> <<"a">>, originalTitle |-> None,
                     grandparentTitle |-> <<"Y">>, parentTitle |-> <<"Z">>,
                     file |-> PathMAB],
             k2 |-> [title |-> <<"a">>, originalTitle |-> None,
                     grandparentTitle |-> <<"V">>, parentTitle |-> <<"W">>,
                     file |-> f]] : f \in {PathNAC, None}}
    /\ apple_lib = <<>>
    /\ log = <<>>
    /\ pc = "idle"
    /\ IdleLocals
    /\ faults = 0
    /\ answer = NoAnswer
    /\ playlists \in SeqsUpTo(ServerPlaylists, MaxPlaylists)
    /\ apple_playlists \in SourcePlaylists
    /\ sync = NoSync
    /\ norm = NoNorm
    /\ IdleLoad

\* the head of sync_playlist, up to the loop
sync_playlist ==
    /\ pc = "idle"
    /\ sync.pc = "idle"
    /\ \E playlist_name \in SyncNames :
           LET paths == get_playlist_tracks(apple_playlists, playlist_name)
           IN  sync' = [NoSync EXCEPT
                            !.pc = "loop",
                            !.playlist_name = playlist_name,
                            !.apple_track_paths = paths,
                            !.idx = 1,
                            !.stats = [total_tracks |-> Len(paths),
                                       matched_tracks |-> 0,
                                       missing_tracks |-> 0],
                            !.before = playlists]
    /\ UNCHANGED <<playlists, apple_playlists, faults>>
    /\ UNCHANGED cleanVars
    /\ UNCHANGED norm
    /\ UNCHANGED runLocal
    /\ UNCHANGED loadVars

\* one iteration of `for file_path in apple_track_paths`
FindTrack ==
    /\ sync.pc = "loop"
    /\ sync.idx <= Len(sync.apple_track_paths)
    /\ \E results \in SearchResults,
          raised \in (IF faults < MaxFaults THEN BOOLEAN ELSE {FALSE}) :
           LET file_path == sync.apple_track_paths[sync.idx]
               plex_track == find_track_by_filename(file_path, results, raised)
               found == plex_track # NoTrack
           IN  /\ sync' =
                      [sync EXCEPT
                           !.idx = @ + 1,
                           !.plex_tracks =
                               IF found THEN Append(@, plex_track) ELSE @,
                           !.missing_tracks =
                               IF found THEN @ ELSE Append(@, file_path),
                           !.stats.matched_tracks =
                               IF found THEN @ + 1 ELSE @,
                           !.stats.missing_tracks =
                               IF found THEN @ ELSE @ + 1,
                           !.lookup =
                               [filename |-> file_path,
                                title |-> name_without_ext(basename(file_path)),
                                results |-> IF raised THEN <<>> ELSE results,
                                raised |-> raised],
                           !.answers = Append(@, plex_track)]
               /\ faults' = IF raised THEN faults + 1 ELSE faults
    /\ UNCHANGED <<playlists, apple_playlists>>
    /\ UNCHANGED cleanVars
    /\ UNCHANGED norm
    /\ UNCHANGED runLocal
    /\ UNCHANGED loadVars

CreateOutcomes(pls, name) ==
    IF faults < MaxFaults
    THEN {"ok", "playlists_raises", "create_raises"}
             \cup (IF ExistingPlaylist(pls, name) # 0
                   THEN {"delete_raises"} ELSE {})
    ELSE {"ok"}

\* `if plex_tracks:` create_playlist(playlist_name, plex_tracks); return stats
CreatePlaylist ==
    /\ sync.pc = "loop"
    /\ sync.idx > Len(sync.apple_track_paths)
    /\ IF sync.plex_tracks # <<>>
       THEN \E outcome \in CreateOutcomes(playlists, sync.playlist_name) :
                LET r == create_playlist(playlists, sync.playlist_name,
                                         sync.plex_tracks, outcome)
                IN  /\ playlists' = r.playlists
                    /\ sync' = [sync EXCEPT !.pc = "done",
                                            !.success = IF r.result THEN "true"
                                                         ELSE "false"]
                    /\ faults' = IF outcome = "ok" THEN faults ELSE faults + 1
       ELSE /\ sync' = [sync EXCEPT !.pc = "done"]
            /\ UNCHANGED <<playlists, faults>>
    /\ UNCHANGED apple_playlists
    /\ UNCHANGED cleanVars
    /\ UNCHANGED norm
    /\ UNCHANGED runLocal
    /\ UNCHANGED loadVars

NextSync ==
    \/ sync_playlist
    \/ FindTrack
    \/ CreatePlaylist

SpecSync == InitSync /\ [][NextSync]_vars

(***************************************************************************)
(* The three workflows under the scheduling of the program: one thread     *)
(* that, inside a workflow, always executes its next statement.  The       *)
(* workflows are started from the menu, one at a time.                     *)
(***************************************************************************)
InitLive ==
    /\ server \in {f \in [Keys -> ResolveK1 \cup ManagedK2] :
                       f["k1"] \in ResolveK1 /\ f["k2"] \in ManagedK2}
    /\ apple_lib \in SmallCatalogs
    /\ log = <<>>
    /\ pc = "idle"
    /\ IdleLocals
    /\ faults = 0
    /\ answer = NoAnswer
    /\ playlists = <<>>
    /\ apple_playlists = <<[name |-> <<"R">>, tracks |-> <<PathSAB, PathSAD>>]>>
    /\ sync = NoSync
    /\ norm = NoNorm
    /\ IdleLoad

CleanStep ==
    \/ SkipCleaned
    \/ NoFilePath
    \/ NoMatch
    \/ MatchTrack
    \/ CheckTitle
    \/ CheckArtist
    \/ CheckAlbum
    \/ UpdateTrack
    \/ EndRun

SyncStep ==
    \/ FindTrack
    \/ CreatePlaylist

NextLive ==
    \/ clean_all_tracks
    \/ clean_artist_tracks
    \/ sync_playlist
    \/ CleanStep
    \/ SyncStep
    \/ Return

SpecLive ==
    /\ InitLive
    /\ [][NextLive]_vars
    /\ WF_vars(CleanStep)
    /\ WF_vars(SyncStep)

(***************************************************************************)
(* The normalizers alone, given any location of the library to decode.     *)
(***************************************************************************)
InitPath ==
    /\ server = [k \in Keys |->
                     [title |-> <<"x">>, originalTitle |-> None,
                      grandparentTitle |-> <<"Y">>, parentTitle |-> <<"Z">>,
                      file |-> None]]
    /\ apple_lib = <<>>
    /\ log = <<>>
    /\ pc = "idle"
    /\ IdleLocals
    /\ faults = 0
    /\ answer = NoAnswer
    /\ playlists = <<>>
    /\ apple_playlists = <<>>
    /\ sync = NoSync
    /\ norm \in [location : Locations, nt : BOOLEAN, xml : {None},
                  db : {None}, decoded : {FALSE}]
    /\ IdleLoad

NextPath == DecodeLocation

SpecPath == InitPath /\ [][NextPath]_vars

(***************************************************************************)
(* interactive_clean_all: the tracks of the managed library grouped by     *)
(* artist, and for every artist in sorted order a prompt that is answered  *)
(* yes (clean_artist_tracks is called), no, exit, or with anything else.   *)
(***************************************************************************)
\* the code points of the letters of the model
CodePoint(c) ==
    CASE c = "V" -> 86
      [] c = "W" -> 87
      [] c = "X" -> 88
      [] c = "Y" -> 89
      [] c = "Z" -> 90
      [] c = "v" -> 118
      [] c = "w" -> 119
      [] c = "x" -> 120
      [] c = "y" -> 121
      [] c = "z" -> 122

\* a < b for two str values
RECURSIVE TextLess(_, _)
TextLess(a, b) ==
    IF a = <<>> THEN b # <<>>
    ELSE IF b = <<>> THEN FALSE
    ELSE IF a[1] = b[1] THEN TextLess(Tail(a), Tail(b))
    ELSE CodePoint(a[1]) < CodePoint(b[1])

\* sorted(artists_tracks.keys())
sorted(names) ==
    CHOOSE q \in [1..Cardinality(names) -> names] :
        \A i, j \in 1..Cardinality(names) : i < j => TextLess(q[i], q[j])

\* the head of interactive_clean_all, up to the loop over the artists
interactive_clean_all ==
    /\ pc = "idle"
    /\ sync.pc = "idle"
    /\ inter.pc = "idle"
    /\ \E enum \in Enumerations :
           LET tracks == [n \in 1..Len(enum) |-> TrackObject(enum[n])]
               names == {track_artist(tracks[n]) : n \in 1..Len(tracks)}
           IN  inter' =
                   [NoInter EXCEPT
                        !.pc = "prompt",
                        !.plex_tracks = tracks,
                        !.artists_tracks =
                            [a \in names |->
                                 SelectSeq(tracks,
                                           LAMBDA t : track_artist(t) = a)],
                        !.sorted_artists = sorted(names),
                        !.n = 1,
                        !.stats = InterStats(Cardinality(names), Len(tracks)),
                        !.server0 = server,
                        !.log0 = log]
    /\ UNCHANGED <<server, apple_lib, log, pc, answer, faults>>
    /\ UNCHANGED <<playlists, apple_playlists, sync, norm, library, report>>
    /\ UNCHANGED runLocal

AtPrompt ==
    /\ inter.pc = "prompt"
    /\ inter.n <= Len(inter.sorted_artists)

artist_name == inter.sorted_artists[inter.n]

\* what an answer leaves alone
AnswerFrame ==
    /\ UNCHANGED <<server, apple_lib, log, pc, answer, faults>>
    /\ UNCHANGED <<playlists, apple_playlists, sync, norm, library, report>>
    /\ UNCHANGED runLocal

\* `if choice in ('y', 'yes')`: clean_artist_tracks is about to be called
AnswerYes ==
    /\ AtPrompt
    /\ inter' = [inter EXCEPT !.pc = "call", !.choices = Append(@, "y")]
    /\ AnswerFrame

\* clean_artist_tracks(plex_client, apple_music_client, clean_logger,
\* artist_name): what searchTracks(artist=...) returns is the server's choice
CallCleanArtist ==
    /\ inter.pc = "call"
    /\ pc = "idle"
    /\ \E enum \in Enumerations :
           StartRun("artist", get_tracks_by_artist(apple_lib, artist_name),
                    enum, FALSE)

\* clean_artist_tracks has returned artist_stats: they are added up and the
\* loop goes to the next artist
ArtistReturn ==
    /\ inter.pc = "call"
    /\ pc = "done"
    /\ inter' =
           [inter EXCEPT
                !.pc = "prompt",
                !.n = @ + 1,
                !.stats.processed_artists = @ + 1,
                !.stats.updated_tracks = @ + stats.updated_tracks,
                !.stats.title_updates = @ + stats.title_updates,
                !.stats.artist_updates = @ + stats.artist_updates,
                !.stats.album_updates = @ + stats.album_updates,
                !.runs = Append(@, [artist_name |-> artist_name,
                                    position |-> inter.n,
                                    plex_tracks |-> plex_tracks,
                                    met |-> [m \in 1..Len(outcomes) |->
                                                 outcomes[m].track],
                                    apple_tracks |-> apple_tracks,
                                    log0 |-> log0,
                                    log |-> log,
                                    writes |-> writes])]
    /\ pc' = "idle"
    /\ mode' = "none"
    /\ plex_tracks' = <<>>
    /\ apple_tracks' = <<>>
    /\ cleaned_tracks' = {}
    /\ idx' = 0
    /\ stats' = ZeroStats(0)
    /\ apple_track' = 0
    /\ updated' = FALSE
    /\ attempts' = <<>>
    /\ writes' = <<>>
    /\ outcomes' = <<>>
    /\ log0' = <<>>
    /\ rerun' = FALSE
    /\ UNCHANGED <<server, apple_lib, log, answer, faults>>
    /\ UNCHANGED <<playlists, apple_playlists, sync, norm, library, report>>

\* `elif choice in ('n', 'no')`
AnswerNo ==
    /\ AtPrompt
    /\ inter' = [inter EXCEPT !.n = @ + 1,
                              !.stats.skipped_artists = @ + 1,
                              !.choices = Append(@, "n")]
    /\ AnswerFrame

\* an exit that goes on with the next artist
AnswerExit_goes_on ==
    /\ AtPrompt
    /\ inter' = [inter EXCEPT !.n = @ + 1,
                              !.exited = TRUE,
                              !.choices = Append(@, "e")]
    /\ AnswerFrame

\* `elif choice in ('e', 'exit')`: return stats
AnswerExit ==
    /\ AtPrompt
    /\ inter' = [inter EXCEPT !.pc = "done",
                              !.exited = TRUE,
                              !.choices = Append(@, "e")]
    /\ AnswerFrame

\* any other answer: the prompt is shown again
AnswerInvalid ==
    /\ AtPrompt
    /\ inter' = [inter EXCEPT !.reprompted = TRUE]
    /\ AnswerFrame

\* the loop over the artists is over: return stats
InteractiveEnd ==
    /\ inter.pc = "prompt"
    /\ inter.n > Len(inter.sorted_artists)
    /\ inter' = [inter EXCEPT !.pc = "done"]
    /\ AnswerFrame

\* neither the log store nor the server fails
InitInteractive ==
    /\ server \in {f \in [Keys -> ManagedK1 \cup ManagedK2] :
                       f["k1"] \in ManagedK1 /\ f["k2"] \in ManagedK2}
    /\ apple_lib \in SmallCatalogs
    /\ log = <<>>
    /\ pc = "idle"
    /\ IdleLocals
    /\ faults = MaxFaults
    /\ answer = NoAnswer
    /\ IdleSync

NextInteractive ==
    \/ interactive_clean_all
    \/ AnswerYes
    \/ CallCleanArtist
    \/ ArtistReturn
    \/ AnswerNo
    \/ AnswerExit
    \/ AnswerInvalid
    \/ InteractiveEnd
    \/ CleanStep

SpecInteractive == InitInteractive /\ [][NextInteractive]_vars

(***************************************************************************)
(* The XML adapter alone, given any export within the bounds to load.      *)
(***************************************************************************)
InitLoad ==
    /\ server = [k \in Keys |->
                     [title |-> <<"x">>, originalTitle |-> None,
                      grandparentTitle |-> <<"Y">>, parentTitle |-> <<"Z">>,
                      file |-> None]]
    /\ apple_lib = <<>>
    /\ log = <<>>
    /\ pc = "idle"
    /\ IdleLocals
    /\ faults = 0
    /\ answer = NoAnswer
    /\ playlists = <<>>
    /\ apple_playlists = <<>>
    /\ sync = NoSync
    /\ norm = NoNorm
    /\ library \in [tracks : RawTracks, playlists : RawPlaylists,
                     nt : BOOLEAN, id_map : {<<>>}, decoded : {<<>>},
                     loaded : {"no"}]
    /\ report = NoReport
    /\ inter = NoInter

NextLoad == load_library

SpecLoad == InitLoad /\ [][NextLoad]_vars

(***************************************************************************)
(* Properties.                                                             *)
(***************************************************************************)
\* the rows of the log that belong to ratingKey k, in order
EntriesOf(l, k) == SelectSeq(l, LAMBDA e : e.plex_rating_key = k)

HasEntry(l, k) == \E n \in 1..Len(l) : l[n].plex_rating_key = k

\* positions of the run's enumeration whose ratingKey is in the set
PositionsIn(keys) ==
    {n \in 1..Len(plex_tracks) : plex_tracks[n].ratingKey \in keys}

(* C1: when clean_all_tracks runs again over the same libraries, starting  *)
(* from the log the first run left, no Change Entry is appended and no     *)
(* managed write is issued for a ratingKey that get_cleaned_tracks         *)
(* returned when the second run started; each such track is counted in     *)
(* skipped_tracks and none of them in updated_tracks.                      *)
C1_RepeatSkipsCleaned ==
    [][(rerun /\ rerun') =>
           /\ \A k \in cleaned_tracks :
                  /\ EntriesOf(log', k) = EntriesOf(log, k)
                  /\ server'[k] = server[k]
                  /\ \A n \in 1..Len(attempts') :
                         attempts'[n].plex_rating_key # k
                  /\ \A n \in 1..Len(writes') : writes'[n].plex_rating_key # k
           /\ pc' = "done" =>
                  /\ stats'.skipped_tracks =
                         Cardinality(PositionsIn(cleaned_tracks)')
                  /\ stats'.updated_tracks <=
                         Len(plex_tracks') - Cardinality(PositionsIn(cleaned_tracks)')
      ]_vars

\* the second run of scenario 3: one track, skipped, nothing updated
C1_Witness ==
    /\ rerun
    /\ pc = "done"
    /\ Len(plex_tracks) = 1
    /\ stats.skipped_tracks = 1
    /\ stats.updated_tracks = 0

C3_AtMostOneEntryPerField ==
    \A k \in Keys, f \in Fields : RowCount(log, k, f) <= 1

\* the field of the Change Log that a key of update_fields belongs to
WrittenFields(w) ==
    {f \in Fields :
         \/ f = "title" /\ w.fields.title # None
         \/ f = "artist" /\ w.fields.originalTitle # None
         \/ f = "album" /\ w.fields.parentTitle # None}

(* C4: every field that update_track_metadata wrote to the server in this  *)
(* run has a record_change call of the run for the same ratingKey and      *)
(* field.                                                                  *)
C4_EveryWriteHasLogAttempt ==
    \A n \in 1..Len(writes) :
        writes[n].edited =>
            \A f \in WrittenFields(writes[n]) :
                \E m \in 1..Len(attempts) :
                    /\ attempts[m].plex_rating_key = writes[n].plex_rating_key
                    /\ attempts[m].field = f

C6_AppendOnly ==
    [][/\ Len(log') >= Len(log)
       /\ SubSeq(log', 1, Len(log)) = log
       /\ IF Len(attempts') = Len(attempts) + 1
          THEN LET a == attempts'[Len(attempts')]
               IN  log' = IF a.ok
                          THEN Append(log,
                                      [plex_rating_key |-> a.plex_rating_key,
                                       field |-> a.field,
                                       old_value |-> a.old_value,
                                       new_value |-> a.new_value])
                          ELSE log
          ELSE log' = log
      ]_vars

\* record_change has stored a row equal to one the log already held
C6_Witness ==
    \E n \in 1..Len(log) :
        /\ n < Len(log)
        /\ log[n] = log[Len(log)]
        /\ Len(attempts) > 0
        /\ attempts[Len(attempts)].ok
        /\ attempts[Len(attempts)].plex_rating_key = log[n].plex_rating_key
        /\ attempts[Len(attempts)].field = log[n].field

\* the source records of the run whose key is the path of track n
SamePath(n) ==
    {m \in 1..Len(apple_tracks) : apple_tracks[m].path = plex_tracks[n].file}

\* the source records of the run whose file name is that of track n
SameBasename(n) ==
    {m \in 1..Len(apple_tracks) :
         basename(apple_tracks[m].path) = basename(plex_tracks[n].file)}

\* the loop has taken track n as far as identity resolution
Resolved(n) ==
    /\ n \in 1..Len(outcomes)
    /\ outcomes[n].kind \in {"matched", "no_match"}

(* C7: a track whose path is the key of exactly one source record is       *)
(* matched with that record; a track whose path is no source key and whose *)
(* file name is that of exactly one source record is matched with that     *)
(* record.                                                                 *)
C7_ResolvesExactThenUniqueBasename ==
    \A n \in 1..Len(outcomes) :
        Resolved(n) =>
            /\ Cardinality(SamePath(n)) = 1 =>
                   /\ outcomes[n].kind = "matched"
                   /\ outcomes[n].source \in SamePath(n)
            /\ (SamePath(n) = {} /\ Cardinality(SameBasename(n)) = 1) =>
                   /\ outcomes[n].kind = "matched"
                   /\ outcomes[n].source \in SameBasename(n)

\* one run has matched a track by its path and another by its file name
C7_Witness ==
    /\ pc = "done"
    /\ \E n \in 1..Len(outcomes) :
           /\ Resolved(n)
           /\ Cardinality(SamePath(n)) = 1
           /\ outcomes[n].source \in SamePath(n)
    /\ \E n \in 1..Len(outcomes) :
           /\ Resolved(n)
           /\ SamePath(n) = {}
           /\ Cardinality(SameBasename(n)) = 1
           /\ outcomes[n].source \in SameBasename(n)

(* C8: when a source record has the track's path as its key it is the one  *)
(* matched, also when a record with the same file name comes earlier in    *)
(* the catalog; when none has and several records have the file name, the  *)
(* earliest of them in the catalog is matched.                             *)
C8_TieredFirstInCatalogOrder ==
    \A n \in 1..Len(outcomes) :
        Resolved(n) =>
            /\ (\E e \in SamePath(n) : \E m \in SameBasename(n) : m < e) =>
                   /\ outcomes[n].kind = "matched"
                   /\ outcomes[n].source \in SamePath(n)
            /\ (SamePath(n) = {} /\ Cardinality(SameBasename(n)) > 1) =>
                   /\ outcomes[n].kind = "matched"
                   /\ outcomes[n].source \in SameBasename(n)
                   /\ \A m \in SameBasename(n) : outcomes[n].source <= m

\* one run has matched a track by its path behind a record of the same file
\* name, and another track with the first of two records of its file name
C8_Witness ==
    /\ pc = "done"
    /\ \E n \in 1..Len(outcomes) :
           /\ Resolved(n)
           /\ \E e \in SamePath(n) : \E m \in SameBasename(n) : m < e
           /\ outcomes[n].source \in SamePath(n)
    /\ \E n \in 1..Len(outcomes) :
           /\ Resolved(n)
           /\ SamePath(n) = {}
           /\ Cardinality(SameBasename(n)) > 1
           /\ outcomes[n].source = 1

\* the tracks of the run that have a file path and a source record with
\* that path or that file name
WithCandidate ==
    {n \in 1..Len(plex_tracks) :
         /\ Truthy(plex_tracks[n].file)
         /\ SamePath(n) \cup SameBasename(n) # {}}

(* C9: a track with no source record of its path or of its file name gets  *)
(* no match: the run makes no record_change and no update_track_metadata   *)
(* call for it and does not count it in matched_tracks.                    *)
C9_NoCandidateNoMatch ==
    /\ \A n \in 1..Len(outcomes) :
           (Resolved(n) /\ n \notin WithCandidate) =>
               /\ outcomes[n].kind = "no_match"
               /\ \A m \in 1..Len(attempts) : attempts[m].at # n
               /\ \A m \in 1..Len(writes) : writes[m].at # n
    /\ stats.matched_tracks <= Cardinality(WithCandidate)

\* a run is over a track that got no match although a source record has
\* its title and its artist
C9_Witness ==
    /\ pc = "done"
    /\ stats.matched_tracks = 0
    /\ \E n \in 1..Len(outcomes) :
           /\ Resolved(n)
           /\ n \notin WithCandidate
           /\ \E m \in 1..Len(apple_tracks) :
                  /\ apple_tracks[m].title = plex_tracks[n].title
                  /\ apple_tracks[m].artist = track_artist(plex_tracks[n])

\* the managed value and the source value of a field for the current track
ManagedValue(f) ==
    CASE f = "title" -> Track.title
      [] f = "artist" -> track_artist(Track)
      [] f = "album" -> Track.parentTitle

SourceValue(f) ==
    CASE f = "title" -> Source.title
      [] f = "artist" -> Source.artist
      [] f = "album" -> Source.album

\* the record_change calls the run has made for the current track
ProducedFor(f) ==
    {m \in 1..Len(attempts) : attempts[m].at = idx /\ attempts[m].field = f}

DifferingFields == {f \in Fields : ManagedValue(f) # SourceValue(f)}

(* C10: when the three fields of a matched track have been compared, the   *)
(* run has produced a Change Entry for a field exactly when the managed    *)
(* value and the source value differ as strings, at most one per field,    *)
(* with the managed value as old_value and the source value as new_value.  *)
C10_EntryIffValuesDiffer ==
    pc = "update" =>
        /\ \A f \in Fields :
               /\ ProducedFor(f) # {} <=> f \in DifferingFields
               /\ Cardinality(ProducedFor(f)) <= 1
               /\ \A m \in ProducedFor(f) :
                      /\ attempts[m].plex_rating_key = Track.ratingKey
                      /\ attempts[m].old_value = ManagedValue(f)
                      /\ attempts[m].new_value = SourceValue(f)
        /\ Cardinality({m \in 1..Len(attempts) : attempts[m].at = idx}) =
               Cardinality(DifferingFields)

\* the title differs in case only, artist and album are equal: one entry
C10_Witness ==
    /\ pc = "update"
    /\ DifferingFields = {"title"}
    /\ lower(Track.title) = lower(Source.title)
    /\ Cardinality(ProducedFor("title")) = 1
    /\ ProducedFor("artist") \cup ProducedFor("album") = {}

\* originalTitle when the track has one, grandparentTitle when it has none
OverrideElseAlbumArtist ==
    IF Track.originalTitle # None
    THEN Track.originalTitle
    ELSE Track.grandparentTitle

ResolvedTracks == SelectSeq(sync.answers, LAMBDA t : t # NoTrack)

\* the server's playlists whose title is the name but for case
Named(name) ==
    {n \in 1..Len(playlists) : lower(playlists[n].title) = lower(name)}

(* C12: when sync_playlist has run over a source playlist and no server    *)
(* call failed, the server's playlist of that name holds exactly the       *)
(* tracks resolved from the source paths, in source order, whatever their  *)
(* number; matched_tracks counts the resolved paths, missing_tracks the    *)
(* others, and they add up to total_tracks.                                *)
C12_PlaylistHoldsResolvedTracks ==
    (sync.pc = "done" /\ faults = 0 /\ sync.apple_track_paths # <<>>) =>
        /\ \E n \in Named(sync.playlist_name) :
               playlists[n].items = ResolvedTracks
        /\ sync.stats.matched_tracks = Len(ResolvedTracks)
        /\ sync.stats.missing_tracks =
               Len(sync.answers) - Len(ResolvedTracks)
        /\ sync.stats.matched_tracks + sync.stats.missing_tracks =
               sync.stats.total_tracks

(* C13: after create_playlist has returned True the server holds exactly   *)
(* one playlist whose title is the name but for case, and its items are    *)
(* the tracks of the call in their order.                                  *)
C13_CreateReplacesSameName ==
    sync.success = "true" =>
        /\ Cardinality(Named(sync.playlist_name)) = 1
        /\ \A n \in Named(sync.playlist_name) :
               playlists[n].items = sync.plex_tracks

\* the tracks of the last search that have a media part with the file name
WithSameFile ==
    {n \in 1..Len(sync.lookup.results) :
         /\ server[sync.lookup.results[n]].file # None
         /\ basename(server[sync.lookup.results[n]].file) =
                basename(sync.lookup.filename)}

(* C14: find_track_by_filename searches for the file name without its      *)
(* extension as title; it returns the first track of the result that has a *)
(* media part with the file name of the path, the first track of the       *)
(* result when none has, and nothing when the result is empty or the       *)
(* search raised.                                                          *)
C14_FirstWithSameFileElseFirst ==
    sync.answers # <<>> =>
        LET plex_track == sync.answers[Len(sync.answers)]
            results == sync.lookup.results
        IN  /\ \E ext \in SeqsUpTo({"b", "c", "d"}, 1) :
                   /\ ext # <<>>
                   /\ sync.lookup.title \o <<".">> \o ext =
                          basename(sync.lookup.filename)
            /\ sync.lookup.raised => plex_track = NoTrack
            /\ ~sync.lookup.raised =>
                   /\ WithSameFile # {} =>
                          /\ plex_track = results[FirstOf(WithSameFile)]
                   /\ (WithSameFile = {} /\ results # <<>>) =>
                          plex_track = results[1]
                   /\ results = <<>> => plex_track = NoTrack

\* the search returned k2 before k1 and the file is k1's: k1 is returned
C14_Witness ==
    /\ sync.answers # <<>>
    /\ sync.lookup.results = <<"k2", "k1">>
    /\ WithSameFile = {2}
    /\ sync.answers[Len(sync.answers)] = "k1"

\* What one iteration of the loop of clean_all_tracks does with a track
\* object, a source catalog and the set of cleaned ratingKeys when no call
\* fails: the Change Entries it records and the fields it writes.
FullCleanEntries(track, catalog) ==
    LET src == catalog[ResolveTrack(track.file, catalog)]
        managed_artist == IF Truthy(track.originalTitle)
                          THEN track.originalTitle
                          ELSE track.grandparentTitle
        entry(f, old, new) == [plex_rating_key |-> track.ratingKey,
                               field |-> f, old_value |-> old,
                               new_value |-> new]
    IN  (IF track.title # src.title
         THEN <<entry("title", track.title, src.title)>> ELSE <<>>)
        \o (IF managed_artist # src.artist
            THEN <<entry("artist", managed_artist, src.artist)>> ELSE <<>>)
        \o (IF track.parentTitle # src.album
            THEN <<entry("album", track.parentTitle, src.album)>> ELSE <<>>)

FullCleanKind(track, catalog, cleaned) ==
    IF track.ratingKey \in cleaned THEN "skipped"
    ELSE IF ~Truthy(track.file) THEN "no_file"
    ELSE IF ResolveTrack(track.file, catalog) = 0 THEN "no_match"
    ELSE "matched"

\* the Change Entries, the writes and the statistics of clean_all_tracks
\* over the first n of the track objects
RECURSIVE FullClean(_, _, _, _)
FullClean(tracks, catalog, cleaned, n) ==
    IF n = 0
    THEN [entries |-> <<>>, writes |-> <<>>, stats |-> ZeroStats(Len(tracks))]
    ELSE LET before == FullClean(tracks, catalog, cleaned, n - 1)
             track == tracks[n]
             kind == FullCleanKind(track, catalog, cleaned)
             new == IF kind = "matched"
                    THEN FullCleanEntries(track, catalog) ELSE <<>>
             src == catalog[ResolveTrack(track.file, catalog)]
             count(f) == Cardinality({m \in 1..Len(new) : new[m].field = f})
         IN  [entries |-> before.entries \o new,
              writes |->
                  IF new # <<>>
                  THEN Append(before.writes,
                              [plex_rating_key |-> track.ratingKey,
                               fields |-> UpdateFields(track, src.title,
                                                       src.artist, src.album)])
                  ELSE before.writes,
              stats |->
                  [total_tracks |-> before.stats.total_tracks,
                   skipped_tracks |-> before.stats.skipped_tracks +
                       (IF kind = "skipped" THEN 1 ELSE 0),
                   matched_tracks |-> before.stats.matched_tracks +
                       (IF kind = "matched" THEN 1 ELSE 0),
                   updated_tracks |-> before.stats.updated_tracks +
                       (IF new # <<>> THEN 1 ELSE 0),
                   title_updates |-> before.stats.title_updates + count("title"),
                   artist_updates |->
                       before.stats.artist_updates + count("artist"),
                   album_updates |->
                       before.stats.album_updates + count("album")]]

\* the track objects of the run as the loop met them
TracksMet == [n \in 1..Len(outcomes) |-> outcomes[n].track]

\* the rows the run added to the log, and the fields of its writes
RowsAdded == SubSeq(log, Len(log0) + 1, Len(log))

WritesMade ==
    [n \in 1..Len(writes) |->
         [plex_rating_key |-> writes[n].plex_rating_key,
          fields |-> writes[n].fields]]

(* C15: an artist clean works on the source records whose artist contains  *)
(* the query, case ignored, and over them and the tracks it enumerated it  *)
(* adds the Change Entries, makes the writes and returns the statistics    *)
(* that clean_all_tracks produces with those catalogs as its input and the *)
(* same log; a full clean produces them over the whole source catalog.     *)
C15_ArtistCleanIsFullCleanOfFiltered ==
    pc = "done" =>
        LET full == FullClean(TracksMet, apple_tracks,
                              get_cleaned_tracks(log0), Len(plex_tracks))
        IN  /\ mode = "all" => apple_tracks = apple_lib
            /\ mode = "artist" =>
                   \E q \in ArtistQueries :
                       apple_tracks =
                           SelectSeq(apple_lib,
                                     LAMBDA e : IsSubstring(lower(q),
                                                            lower(e.artist)))
            /\ RowsAdded = full.entries
            /\ WritesMade = full.writes
            /\ stats = full.stats

\* an artist clean with a query in another case than the artist's name has
\* left out a source record of another artist and updated a track
C15_Witness ==
    /\ pc = "done"
    /\ mode = "artist"
    /\ Len(apple_tracks) < Len(apple_lib)
    /\ \E n \in 1..Len(apple_tracks) : apple_tracks[n].artist = <<"Y">>
    /\ RowsAdded # <<>>
    /\ stats.updated_tracks > 0

\* the loop of a clean is a single pass: a track is met when the loop is at
\* it, in the order of the enumeration, and is written to at most once
SinglePass ==
    /\ pc \in {"loop", "done"} => Len(outcomes) = idx - 1
    /\ pc \in {"title", "artist", "album", "update"} => Len(outcomes) = idx
    /\ \A n \in 1..Len(outcomes) :
           outcomes[n].track.ratingKey = plex_tracks[n].ratingKey
    /\ \A n, m \in 1..Len(writes) : n # m => writes[n].at # writes[m].at
    /\ pc = "done" => Len(outcomes) = Len(plex_tracks)
    /\ sync.pc = "loop" => Len(sync.answers) = sync.idx - 1
    /\ sync.pc = "done" => Len(sync.answers) = Len(sync.apple_track_paths)

(* C16: a full clean, an artist clean and a playlist sync each end after   *)
(* one pass that meets every enumerated record once and tries nothing      *)
(* twice; a track with no file path, with no match or with a write the     *)
(* server rejects does not stop the run.                                   *)
C16_RunsEndAfterOnePass ==
    /\ []SinglePass
    /\ (pc \notin {"idle", "done"}) ~> (pc = "done")
    /\ (sync.pc = "loop") ~> (sync.pc = "done")

\* a run is over in which the server rejected the write of the first track
\* and the second track was met after it
C16_Witness ==
    /\ pc = "done"
    /\ Len(plex_tracks) = 2
    /\ Len(outcomes) = 2
    /\ \E n \in 1..Len(writes) :
           /\ writes[n].at = 1
           /\ ~writes[n].edited
           /\ writes[n].fields # NoFields
    /\ outcomes[2].kind \in {"no_file", "no_match"}

(* C17: a record_change whose store fails adds no row and the run goes on  *)
(* with the next field of the same track; a run treats as cleaned exactly  *)
(* the ratingKeys that have a row when it starts, so a change whose row    *)
(* was not stored does not make its track cleaned.                         *)
C17_StoreFailureRecordsNothing ==
    /\ [][(/\ Len(attempts') = Len(attempts) + 1
           /\ ~attempts'[Len(attempts')].ok) =>
              /\ log' = log
              /\ idx' = idx
              /\ pc' \in {"artist", "album", "update"}]_vars
    /\ [](pc # "idle" =>
              cleaned_tracks = {k \in Keys : HasEntry(log0, k)})

\* the run before this one lost the only row it tried to store: the log is
\* empty and this run has matched the track again instead of skipping it
C17_Witness ==
    /\ rerun
    /\ faults = 1
    /\ log0 = <<>>
    /\ Len(outcomes) > 0
    /\ outcomes[1].kind = "matched"

\* the record_change calls and the update_track_metadata calls of the run
\* for the track at position n
AttemptsAt(n) == {m \in 1..Len(attempts) : attempts[m].at = n}
WritesAt(n) == {m \in 1..Len(writes) : writes[m].at = n}

\* the outcomes of a track the loop is through with
OutcomesOf(n) ==
    {o \in {"skipped", "no-match", "matched-no-change", "matched-updated"} :
         \/ /\ o = "skipped"
            /\ outcomes[n].kind = "skipped"
            /\ AttemptsAt(n) \cup WritesAt(n) = {}
         \/ /\ o = "no-match"
            /\ outcomes[n].kind \in {"no_file", "no_match"}
            /\ AttemptsAt(n) \cup WritesAt(n) = {}
         \/ /\ o = "matched-no-change"
            /\ outcomes[n].kind = "matched"
            /\ AttemptsAt(n) \cup WritesAt(n) = {}
         \/ /\ o = "matched-updated"
            /\ outcomes[n].kind = "matched"
            /\ AttemptsAt(n) # {}
            /\ Cardinality(WritesAt(n)) = 1}

Finished == IF pc \in {"loop", "done"} THEN 1..Len(outcomes)
            ELSE 1..(Len(outcomes) - 1)

(* C18: every track a clean run is through with has exactly one outcome    *)
(* among skipped, no-match (no file path included), matched-no-change and  *)
(* matched-updated, and at every point of the run skipped_tracks +         *)
(* matched_tracks <= total_tracks and updated_tracks <= matched_tracks.    *)
C18_OneOutcomePerTrack ==
    pc # "idle" =>
        /\ \A n \in Finished : Cardinality(OutcomesOf(n)) = 1
        /\ pc = "done" => Finished = 1..Len(plex_tracks)
        /\ stats.total_tracks = Len(plex_tracks)
        /\ stats.skipped_tracks + stats.matched_tracks <= stats.total_tracks
        /\ stats.updated_tracks <= stats.matched_tracks

\* a run of two tracks is over: one matched and updated, one without match
C18_Witness ==
    /\ pc = "done"
    /\ Len(plex_tracks) = 2
    /\ OutcomesOf(1) = {"matched-updated"}
    /\ OutcomesOf(2) = {"no-match"}
    /\ stats.matched_tracks = 1
    /\ stats.updated_tracks = 1

\* the managed records the run has changed on the server
ActuallyUpdated ==
    {writes[n].plex_rating_key : n \in {m \in 1..Len(writes) : writes[m].edited}}

FieldCounter(f) ==
    CASE f = "title" -> stats.title_updates
      [] f = "artist" -> stats.artist_updates
      [] f = "album" -> stats.album_updates

(* C19: in the statistics a clean run returns, title_updates,              *)
(* artist_updates and album_updates are the numbers of Change Entries of   *)
(* the field the run produced, and updated_tracks is the number of         *)
(* distinct managed records the run has actually updated.                  *)
C19_CountersMatchChanges ==
    pc = "done" =>
        /\ \A f \in Fields :
               FieldCounter(f) =
                   Cardinality({m \in 1..Len(attempts) : attempts[m].field = f})
        /\ stats.updated_tracks = Cardinality(ActuallyUpdated)

\* urllib.parse.quote of a path: "/" and the unreserved characters stay,
\* a blank becomes %20 and a percent sign %25
RECURSIVE quote(_)
quote(path) ==
    IF path = <<>> THEN <<>>
    ELSE (CASE path[1] = " " -> <<"%", "2", "0">>
            [] path[1] = "%" -> <<"%", "2", "5">>
            [] OTHER -> <<path[1]>>) \o quote(Tail(path))

\* what the location holds after the prefix
Suffix == SubSeq(norm.location, 8, Len(norm.location))

\* the texts quote produces from the paths over LocChars: without blank,
\* and with every "%" the start of %20 or %25
IsQuoted(t) ==
    \A n \in 1..Len(t) :
        /\ t[n] # " "
        /\ t[n] = "%" =>
               /\ n + 2 <= Len(t)
               /\ t[n + 1] = "2"
               /\ t[n + 2] \in {"0", "5"}

(* C20: where os.name is not 'nt', a location made of "file://" and the    *)
(* percent-encoding of a path is decoded, by both adapters, to a path      *)
(* whose percent-encoding is the rest of the location: quote is            *)
(* one-to-one, so this is the path that was encoded.                       *)
C20_DecodeOfEncodeIsPath ==
    (/\ norm.decoded
     /\ ~norm.nt
     /\ StartsWith(norm.location, FilePrefix)
     /\ IsQuoted(Suffix)) =>
        /\ norm.xml # None
        /\ quote(norm.xml) = Suffix
        /\ norm.db = norm.xml

\* the path "%20" has come back from its location "file://%2520"
C20_Witness ==
    /\ norm.decoded
    /\ ~norm.nt
    /\ norm.location = FilePrefix \o quote(<<"%", "2", "0">>)
    /\ norm.xml = <<"%", "2", "0">>
    /\ norm.db = <<"%", "2", "0">>
\* the tracks of the export that have a Location, and those of them whose
\* Location _decode_file_url could not decode
Located == {n \in 1..Len(library.tracks) :
                library.tracks[n].Location # NoLocation}

Undecodable == {n \in 1..Len(library.decoded) : library.decoded[n] = None}

\* the paths of the playlist items whose track is in id_map
ItemPaths(items) ==
    LET known == SelectSeq(items, LAMBDA id : InIdMap(library.id_map, id))
    IN  [m \in 1..Len(known) |-> IdPath(library.id_map, known[m])]

(* C21: _decode_file_url returns None for a Location that does not begin   *)
(* with "file://" and for one whose decoding raises, and the load goes on; *)
(* a track whose Location came back None has no entry in track_map or      *)
(* id_map, and no path in a playlist: a playlist holds the paths of its    *)
(* items that are in id_map, in order.                                     *)
C21_UndecodableLeftOut ==
    library.loaded # "no" =>
        /\ library.loaded = "yes"
        /\ Len(library.decoded) = Len(library.tracks)
        /\ \A n \in Located :
               (\/ library.tracks[n].Location = NotStr
                \/ ~StartsWith(library.tracks[n].Location, FilePrefix)) =>
                   library.decoded[n] = None
        /\ \A n \in Undecodable :
               /\ ~InIdMap(library.id_map, library.tracks[n].id)
               /\ \A m \in 1..Len(apple_lib) :
                      apple_lib[m].title # RawMeta(library.tracks[n].id).title
        /\ \A m \in 1..Len(apple_playlists) :
               \E q \in 1..Len(library.playlists) :
                   /\ library.playlists[q].Name = apple_playlists[m].name
                   /\ apple_playlists[m].tracks =
                          ItemPaths(library.playlists[q].Items)

\* track 1 has a Location that is not a str, track 2 the Location
\* "file:///m", and the playlist lists both: the catalog and the playlist
\* hold "/m" only
C21_Witness ==
    /\ library.loaded = "yes"
    /\ library.tracks = <<[id |-> "1", Location |-> NotStr],
                          [id |-> "2", Location |-> FilePrefix \o <<"/", "m">>]>>
    /\ Len(apple_lib) = 1
    /\ apple_lib[1].path = <<"/", "m">>
    /\ apple_lib[1].title = <<"x">>
    /\ apple_playlists = <<[name |-> <<"R">>, tracks |-> <<<<"/", "m">>>>]>>
\* the segment after "/Volumes/": up to the next "/" or to the end
VolumeName(path) ==
    LET rest == SubSeq(path, 4, Len(path))
        seps == {n \in 1..Len(rest) : rest[n] = "/"}
    IN  IF seps = {} THEN rest
        ELSE SubSeq(rest, 1, FirstOf(seps) - 1)

\* what follows the volume name and its "/"
Remainder(path) ==
    SubSeq(path, 4 + Len(VolumeName(path)) + 1, Len(path))

\* the location has the scheme and no escape: the decoded path is what
\* follows the scheme
PlainFileLocation ==
    /\ norm.decoded
    /\ StartsWith(norm.location, FilePrefix)
    /\ \A n \in 1..Len(Suffix) : Suffix[n] # "%"

(* C22: where os.name is 'nt', a decoded path that begins with "/Volumes/"  *)
(* and a volume name becomes the volume name, ":/" and the remainder, which *)
(* may be empty, and any other decoded path that begins with "/" loses its  *)
(* first "/" and nothing else; where os.name is not 'nt' the decoded path   *)
(* is returned as it is.  Both normalizers do so.                           *)
C22_VolumesRewrittenElseSlashStripped ==
    PlainFileLocation =>
        /\ norm.db = norm.xml
        /\ ~norm.nt => norm.xml = Suffix
        /\ (/\ norm.nt
            /\ StartsWith(Suffix, VolumesPrefix)
            /\ VolumeName(Suffix) # <<>>) =>
               norm.xml = VolumeName(Suffix) \o <<":", "/">>
                              \o Remainder(Suffix)
        /\ (/\ norm.nt
            /\ StartsWith(Suffix, <<"/">>)
            /\ ~StartsWith(Suffix, VolumesPrefix)) =>
               norm.xml = Tail(Suffix)

RowsOfField(f) == Cardinality({n \in 1..Len(log) : log[n].field = f})

\* what get_stats returned for the field: a field without a group has no
\* key in the result
CountOf(f) ==
    IF f \in DOMAIN report.field_counts THEN report.field_counts[f] ELSE 0

YesAnswers ==
    Cardinality({n \in 1..Len(inter.choices) : inter.choices[n] = "y"})

\* exit has been chosen: the workflow is over, and the artist cleans made
\* are those of the artists answered yes before
EndedByExit ==
    inter.exited =>
        /\ inter.pc = "done"
        /\ pc = "idle"
        /\ inter.choices[Len(inter.choices)] = "e"
        /\ Len(inter.runs) = YesAnswers
        /\ \A r \in 1..Len(inter.runs) : inter.runs[r].position < inter.n

\* an artist clean called from a prompt has met every track it enumerated
\* before the next prompt, and a prompt is shown between two cleans only
CleansCompleted ==
    /\ \A r \in 1..Len(inter.runs) :
           Len(inter.runs[r].met) = Len(inter.runs[r].plex_tracks)
    /\ inter.pc \in {"prompt", "done"} => pc = "idle"
    /\ Len(inter.runs) = inter.stats.processed_artists

ArtistsCounted ==
    /\ inter.stats.processed_artists + inter.stats.skipped_artists <=
           inter.stats.total_artists
    /\ (inter.pc = "done" /\ ~inter.exited) =>
           inter.stats.processed_artists + inter.stats.skipped_artists =
               inter.stats.total_artists

(* C25: in interactive_clean_all, exit at an artist's prompt ends the      *)
(* workflow at once: no clean is made for that artist or a later one and   *)
(* nothing changes afterwards; every artist answered yes before was        *)
(* cleaned to the end of its tracks; processed_artists + skipped_artists   *)
(* never exceeds total_artists and equals it when the run ends without     *)
(* exit.                                                                   *)
C25_ExitEndsAtOnce ==
    /\ [](EndedByExit /\ CleansCompleted /\ ArtistsCounted)
    /\ [][inter.exited =>
              /\ server' = server
              /\ log' = log
              /\ inter' = inter]_vars

\* the first artist was answered yes and a track of theirs was updated, and
\* exit was chosen at the prompt of the second artist
C25_Witness ==
    /\ inter.exited
    /\ inter.choices = <<"y", "e">>
    /\ inter.n = 2
    /\ Len(inter.sorted_artists) = 2
    /\ Len(inter.runs) = 1
    /\ inter.runs[1].writes # <<>>
    /\ inter.stats.updated_tracks = 1
\* the ratingKeys of the update_track_metadata calls of the run that
\* returned False, and of those that returned True
Rejected ==
    {writes[n].plex_rating_key : n \in {m \in 1..Len(writes) : ~writes[m].result}}

Accepted ==
    {writes[n].plex_rating_key : n \in {m \in 1..Len(writes) : writes[m].result}}

(* C26: when update_track_metadata returns False for a track, the log      *)
(* holds no Change Entry of the run for that track and the track is not    *)
(* counted in updated_tracks; so every ratingKey the next run skips as     *)
(* cleaned has had its change applied.                                     *)
C26_LogHoldsAppliedChangesOnly ==
    /\ \A n \in 1..Len(RowsAdded) :
           RowsAdded[n].plex_rating_key \notin Rejected \ Accepted
    /\ pc = "done" =>
           stats.updated_tracks =
               Cardinality({n \in 1..Len(writes) : writes[n].result})
KeysOf(tracks) == [n \in 1..Len(tracks) |-> tracks[n].ratingKey]

\* interactive_clean_all has ended with every prompt answered yes; the
\* managed library listed every track once, and for every artist it
\* returned the tracks that were grouped under the artist
AllYesOverGroups ==
    /\ inter.pc = "done"
    /\ ~inter.exited
    /\ \A n \in 1..Len(inter.choices) : inter.choices[n] = "y"
    /\ \A m, n \in 1..Len(inter.plex_tracks) :
           m # n => inter.plex_tracks[m].ratingKey # inter.plex_tracks[n].ratingKey
    /\ \A r \in 1..Len(inter.runs) :
           KeysOf(inter.runs[r].plex_tracks) =
               KeysOf(inter.artists_tracks[inter.runs[r].artist_name])

\* what clean_all_tracks makes of the tracks, the source catalog and the
\* log that interactive_clean_all started from
OneFullClean ==
    FullClean(inter.plex_tracks, apple_lib, get_cleaned_tracks(inter.log0),
              Len(inter.plex_tracks))

\* the managed record of k after the writes of one full clean
FullCleanRecord(k) ==
    LET w == {n \in 1..Len(OneFullClean.writes) :
                  OneFullClean.writes[n].plex_rating_key = k}
    IN  IF w = {} THEN inter.server0[k]
        ELSE Edited(inter.server0[k],
                    OneFullClean.writes[CHOOSE n \in w : TRUE].fields)

(* C27: interactive_clean_all with every prompt answered yes leaves the    *)
(* Change Entries and the managed metadata that one clean_all_tracks       *)
(* leaves over the same managed library, source catalog and log.           *)
C27_AllYesIsOneFullClean ==
    AllYesOverGroups =>
        /\ Len(log) - Len(inter.log0) = Len(OneFullClean.entries)
        /\ {log[n] : n \in (Len(inter.log0) + 1)..Len(log)} =
               {OneFullClean.entries[n] : n \in 1..Len(OneFullClean.entries)}
        /\ \A k \in Keys : server[k] = FullCleanRecord(k)
\* the source record a run matches with the managed record of k
SourceOf(k) == apple_tracks[ResolveTrack(server[k].file, apple_tracks)]

\* the managed record of k holds what its source record says
EqualsSource(k) ==
    /\ server[k].title = SourceOf(k).title
    /\ track_artist(server[k]) = SourceOf(k).artist
    /\ server[k].parentTitle = SourceOf(k).album

(* C28: after update_track_metadata has returned True for a matched track, *)
(* the title, the artist (originalTitle, else grandparentTitle) and the    *)
(* album of the managed record are those of its source record, and         *)
(* comparing the two again produces no Change Entry.                       *)
C28_WrittenRecordEqualsSource ==
    \A n \in 1..Len(writes) :
        writes[n].result =>
            /\ EqualsSource(writes[n].plex_rating_key)
            /\ FullCleanEntries(TrackObject(writes[n].plex_rating_key),
                                apple_tracks) = <<>>
\* the update_track_metadata calls of the run that went to the server
IssuedWrites == {n \in 1..Len(writes) : writes[n].fields # NoFields}

\* the record_change calls made for the track of write n before the write;
\* with stored, those among them whose row the store accepted
LoggedBefore(n, stored) ==
    {m \in 1..writes[n].logged :
         /\ attempts[m].at = writes[n].at
         /\ stored => attempts[m].ok}

\* the track of write n has one write, and no record_change after it
WrittenLast(n) ==
    /\ \A m \in AttemptsAt(writes[n].at) : m <= writes[n].logged
    /\ \A m \in IssuedWrites : writes[m].at = writes[n].at => m = n

(* C29 as stated: every write a clean run issues comes after the Change    *)
(* Entries of its track were appended, and no write is issued for a track  *)
(* for which the run appended no entry.                                    *)
C29_LogThenWrite ==
    \A n \in IssuedWrites :
        /\ LoggedBefore(n, TRUE) # {}
        /\ WrittenLast(n)

(* C29: every write a clean run issues comes after all record_change       *)
(* calls for its track, there is one write per track, and no write is      *)
(* issued for a track for which the run made no record_change call; when   *)
(* the store of a record_change fails no entry is appended and the write   *)
(* is issued all the same.                                                 *)
C29_AttemptThenWrite ==
    \A n \in IssuedWrites :
        /\ LoggedBefore(n, FALSE) # {}
        /\ WrittenLast(n)
        /\ Len(RowsAdded) =
               Cardinality({m \in 1..Len(attempts) : attempts[m].ok})

\* a track was written after its only record_change lost its row
C29_Witness ==
    \E n \in IssuedWrites :
        /\ writes[n].edited
        /\ Cardinality(LoggedBefore(n, FALSE)) = 1
        /\ LoggedBefore(n, TRUE) = {}
        /\ RowsAdded = <<>>

(* C30: when create_playlist has returned False, the server's playlists    *)
(* are what they were before the call.                                     *)
C30_FailedCreateLeavesPlaylists ==
    sync.success = "false" => playlists = sync.before
====
